---- MODULE Spec2Model ----
(***************************************************************************)
(* Verification model of the Maka-Sitomniya data-cube scripts.             *)
(*                                                                         *)
(*   SpecBatch    maca_seasonal_batch.py   MACASeasonalDownloader          *)
(*                                                                         *)
(* Every component has its own variables, initial predicate and next-state *)
(* relation; a specification runs one component and leaves the variables   *)
(* of the others at their initial values.                                  *)
(***************************************************************************)
EXTENDS Integers, Sequences, FiniteSets, TLC

(***************************************************************************)
(* Generic helpers                                                         *)
(***************************************************************************)
Range(s) == {s[i] : i \in 1..Len(s)}

Min2(a, b) == IF a <= b THEN a ELSE b

Max2(a, b) == IF a >= b THEN a ELSE b

(***************************************************************************)
(* maca_seasonal_batch.py                                                  *)
(***************************************************************************)
VARIABLES
    progress_exists,   \* download_progress.json exists in the output directory
    progress_file,     \* the identifiers stored in download_progress.json
    remote_empty,      \* task keys whose filtered image collection is empty
    pc,                \* position of the batch process
    args,              \* variables / models / scenarios of the current run
    vi, mi, si,        \* indexes of the loops of batch_download
    y0, sk,            \* period start and season index of _process_scenario
    completed_tasks,   \* self.completed_tasks
    active_tasks,      \* len(self.active_tasks)
    n_active,          \* number of tasks of self.active_tasks with active()
    tasks_started,     \* local counter of _process_scenario
    started,           \* local counter of batch_download
    throttle_waits,    \* sleeps of the current _throttle call
    loaded_at_start,   \* history: what _load_progress returned for this run
    submitted_log,     \* history: keys of the tasks started in this run
    ee_initialized,    \* ee.Initialize has succeeded in this process
    remote_jobs,       \* active remote jobs submitted by processes that ended
    printed,           \* the figures main printed in dry-run or status mode
    enumerated         \* history: _start_export calls of this run

varsBatch == <<progress_exists, progress_file, remote_empty, pc, args, vi, mi,
               si, y0, sk, completed_tasks, active_tasks, n_active,
               tasks_started, started, throttle_waits, loaded_at_start,
               submitted_log, ee_initialized, remote_jobs, printed,
               enumerated>>

TASK_LIMIT == 250

SEASONS == <<"DJF", "MAM", "JJA", "SON">>

SCENARIOS == [historical |-> [start |-> 1950, end |-> 2005],
              rcp45      |-> [start |-> 2006, end |-> 2099],
              rcp85      |-> [start |-> 2006, end |-> 2099]]

\* the polls one _throttle call is followed through
MaxWaits == 2

\* command lines the runs are started with
ArgChoices ==
    { [variables |-> <<"tasmax", "tasmax">>, models |-> <<"GFDL-ESM2M">>,
       scenarios |-> <<"historical">>],
      [variables |-> <<"tasmax">>, models |-> <<"GFDL-ESM2M">>,
       scenarios |-> <<"rcp45", "rcp85">>] }

\* the active jobs of earlier processes a new batch run is started with; a
\* run never reads them (its task list starts empty, line 112)
MaxOrphans == 0

\* nothing has been printed by a dry run or a status check
NoOutput == [mode |-> "none", est_tasks |-> 0, active |-> 0, completed |-> 0]

\* lines 209 and 271: the three-year periods of a scenario of yrs years
periodsFloor(yrs) == yrs \div 3

periods(yrs) == (yrs + 2) \div 3

RECURSIVE SumTasks(_)
\* lines 268-272: the loop that adds the tasks of the scenarios
SumTasks(scenarios) ==
    IF scenarios = <<>> THEN 0
    ELSE LET sc  == scenarios[1]
             yrs == SCENARIOS[sc].end - SCENARIOS[sc].start + 1
         IN  periods(yrs) * 4 + SumTasks(Tail(scenarios))

\* lines 268-273: the estimate the dry run prints for a command line
est_tasks(a) == SumTasks(a.scenarios) * (Len(a.variables) * Len(a.models))

\* no command line has been read yet
NoArgs == [variables |-> <<>>, models |-> <<>>, scenarios |-> <<>>]

\* contents of the remote collection: the combinations without any image
RemoteChoices ==
    { {"tasmax_GFDL-ESM2M_historical_1953_1955_MAM",
       "tasmax_GFDL-ESM2M_rcp45_2006_2008_DJF"} }

_task_id_no_scenario(var, model, scen, yr0, yr1, season) ==
    var \o "_" \o model \o "_" \o ToString(yr0) \o "_"
        \o ToString(yr1) \o "_" \o season

_task_id(var, model, scen, yr0, yr1, season) ==
    var \o "_" \o model \o "_" \o scen \o "_" \o ToString(yr0) \o "_"
        \o ToString(yr1) \o "_" \o season

_load_progress == IF progress_exists THEN progress_file ELSE {}

\* the identifier of the combination the loops are at
CurrentTid ==
    LET scen == args.scenarios[si]
        y1   == Min2(y0 + 2, SCENARIOS[scen].end)
    IN  _task_id(args.variables[vi], args.models[mi], scen, y0, y1, SEASONS[sk])

\* line 131: the combination is already recorded
AlreadyDoneNoCheck(tid, completed) == FALSE

AlreadyDone(tid, completed) == tid \in completed

\* line 197: the loop condition of _throttle
ThrottleBlockedOffByOne(n) == n > TASK_LIMIT

ThrottleBlocked(n) == n >= TASK_LIMIT

InitBatch ==
    /\ progress_exists = FALSE
    /\ progress_file = {}
    /\ remote_empty \in RemoteChoices
    /\ pc = "idle"
    /\ args = NoArgs
    /\ vi = 1 /\ mi = 1 /\ si = 1
    /\ y0 = 0 /\ sk = 1
    /\ completed_tasks = {}
    /\ active_tasks = 0
    /\ n_active = 0
    /\ tasks_started = 0
    /\ started = 0
    /\ throttle_waits = 0
    /\ loaded_at_start = {}
    /\ submitted_log = <<>>
    /\ ee_initialized = FALSE
    /\ remote_jobs = 0
    /\ printed = NoOutput
    /\ enumerated = 0

\* main(), lines 256, 281-286 and 215-221: a new process without --dry-run
\* and --check-status initializes Earth Engine, builds the downloader and
\* enters the loops of batch_download
StartRun ==
    /\ pc = "idle"
    /\ remote_jobs <= MaxOrphans
    /\ ee_initialized' = TRUE
    /\ printed' = NoOutput
    /\ enumerated' = 0
    /\ UNCHANGED remote_jobs
    /\ \E a \in ArgChoices :
        /\ args' = a
        /\ y0' = SCENARIOS[a.scenarios[1]].start
    /\ completed_tasks' = _load_progress
    /\ loaded_at_start' = _load_progress
    /\ active_tasks' = 0
    /\ n_active' = 0
    /\ vi' = 1 /\ mi' = 1 /\ si' = 1 /\ sk' = 1
    /\ tasks_started' = 0
    /\ started' = 0
    /\ throttle_waits' = 0
    /\ submitted_log' = <<>>
    /\ pc' = "export"
    /\ UNCHANGED <<progress_exists, progress_file, remote_empty>>

\* lines 120-121: the identifiers download_progress.json holds after
\* _save_progress has overwritten it
_save_progress_submitted_only(completed) == completed \ loaded_at_start

_save_progress(completed) == completed

\* the loop headers of lines 187-189 and 217-219, with the _save_progress of
\* line 222 after a scenario and that of line 225 after the last one
Advance(completed) ==
    LET scen == args.scenarios[si] IN
    IF sk < Len(SEASONS)
    THEN /\ sk' = sk + 1
         /\ pc' = "export"
         /\ UNCHANGED <<y0, vi, mi, si, tasks_started, started,
                        progress_exists, progress_file>>
    ELSE IF y0 + 3 <= SCENARIOS[scen].end
    THEN /\ sk' = 1
         /\ y0' = y0 + 3
         /\ pc' = "export"
         /\ UNCHANGED <<vi, mi, si, tasks_started, started,
                        progress_exists, progress_file>>
    ELSE /\ sk' = 1
         /\ started' = started + tasks_started
         /\ tasks_started' = 0
         /\ progress_exists' = TRUE
         /\ progress_file' = _save_progress(completed)
         /\ IF si < Len(args.scenarios)
            THEN /\ si' = si + 1
                 /\ y0' = SCENARIOS[args.scenarios[si + 1]].start
                 /\ pc' = "export"
                 /\ UNCHANGED <<vi, mi>>
            ELSE IF mi < Len(args.models)
            THEN /\ mi' = mi + 1
                 /\ si' = 1
                 /\ y0' = SCENARIOS[args.scenarios[1]].start
                 /\ pc' = "export"
                 /\ UNCHANGED vi
            ELSE IF vi < Len(args.variables)
            THEN /\ vi' = vi + 1
                 /\ mi' = 1
                 /\ si' = 1
                 /\ y0' = SCENARIOS[args.scenarios[1]].start
                 /\ pc' = "export"
            ELSE /\ pc' = "done"
                 /\ UNCHANGED <<vi, mi, si, y0>>

\* line 152: seasonal.size().getInfo(), 0 for a combination without images
seasonal_size_positive(tid) == 1

seasonal_size(tid) == IF tid \in remote_empty THEN 0 ELSE 1

\* _start_export, lines 129-181, as called from line 190
StartExport ==
    /\ pc = "export"
    /\ LET tid == CurrentTid IN
       IF AlreadyDone(tid, completed_tasks)
       THEN \* return True: counted, then _throttle
            /\ tasks_started' = tasks_started + 1
            /\ pc' = "throttle"
            /\ UNCHANGED <<completed_tasks, active_tasks, n_active,
                           submitted_log, vi, mi, si, y0, sk, started,
                           progress_exists, progress_file>>
       ELSE IF seasonal_size(tid) = 0
       THEN \* return False: next combination
            /\ Advance(completed_tasks)
            /\ UNCHANGED <<completed_tasks, active_tasks, n_active,
                           submitted_log>>
       ELSE \* task.start(): the task is queued and recorded
            /\ active_tasks' = active_tasks + 1
            /\ n_active' = n_active + 1
            /\ completed_tasks' = completed_tasks \cup {tid}
            /\ submitted_log' = Append(submitted_log, tid)
            /\ tasks_started' = tasks_started + 1
            /\ pc' = "throttle"
            /\ UNCHANGED <<vi, mi, si, y0, sk, started,
                           progress_exists, progress_file>>
    /\ throttle_waits' = 0
    /\ enumerated' = enumerated + 1
    /\ UNCHANGED <<remote_empty, args, loaded_at_start, ee_initialized,
                   remote_jobs, printed>>

\* _throttle, lines 196-199: one evaluation of the loop condition that is
\* true, followed by the sleep
ThrottleWait ==
    /\ pc = "throttle"
    /\ ThrottleBlocked(n_active)
    /\ throttle_waits < MaxWaits
    /\ throttle_waits' = throttle_waits + 1
    /\ UNCHANGED <<progress_exists, progress_file, remote_empty, pc, args,
                   vi, mi, si, y0, sk, completed_tasks, active_tasks,
                   n_active, tasks_started, started, loaded_at_start,
                   submitted_log, ee_initialized, remote_jobs, printed,
                   enumerated>>

\* _throttle, lines 196-199: the loop condition is false, the driver goes on
ThrottlePass ==
    /\ pc = "throttle"
    /\ ~ThrottleBlocked(n_active)
    /\ Advance(completed_tasks)
    /\ throttle_waits' = 0
    /\ UNCHANGED <<remote_empty, args, completed_tasks, active_tasks,
                   n_active, loaded_at_start, submitted_log, ee_initialized,
                   remote_jobs, printed, enumerated>>

\* the remote service finishes, fails or cancels one export task of the run:
\* Task.active() turns false for it and stays false
TaskCompletes ==
    /\ pc \in {"export", "throttle"}
    /\ n_active > 0
    /\ n_active' = n_active - 1
    /\ UNCHANGED <<progress_exists, progress_file, remote_empty, pc, args,
                   vi, mi, si, y0, sk, completed_tasks, active_tasks,
                   tasks_started, started, throttle_waits, loaded_at_start,
                   submitted_log, ee_initialized, remote_jobs, printed,
                   enumerated>>

\* the memory of a process that has ended; the jobs it left active stay
\* active at the remote service
ProcessGone ==
    /\ pc' = "idle"
    /\ vi' = 1 /\ mi' = 1 /\ si' = 1
    /\ y0' = 0 /\ sk' = 1
    /\ completed_tasks' = {}
    /\ active_tasks' = 0
    /\ n_active' = 0
    /\ tasks_started' = 0
    /\ started' = 0
    /\ throttle_waits' = 0
    /\ loaded_at_start' = {}
    /\ submitted_log' = <<>>
    /\ args' = NoArgs
    /\ ee_initialized' = FALSE
    /\ remote_jobs' = remote_jobs + n_active
    /\ printed' = NoOutput
    /\ enumerated' = 0
    /\ UNCHANGED <<progress_exists, progress_file, remote_empty>>

\* the process is interrupted inside the loops: no further write happens
Interrupt ==
    /\ pc \in {"export", "throttle"}
    /\ ProcessGone

\* what a process that only prints leaves of the loop state
NoLoops ==
    /\ vi' = 1 /\ mi' = 1 /\ si' = 1
    /\ y0' = 0 /\ sk' = 1
    /\ tasks_started' = 0
    /\ started' = 0
    /\ throttle_waits' = 0
    /\ enumerated' = 0
    /\ submitted_log' = <<>>

\* init_ee, lines 83-88: ee.Initialize raises and the process exits with 1
InitEeFails ==
    /\ pc = "idle"
    /\ pc' = "init_failed"
    /\ UNCHANGED <<progress_exists, progress_file, remote_empty, args, vi,
                   mi, si, y0, sk, completed_tasks, active_tasks, n_active,
                   tasks_started, started, throttle_waits, loaded_at_start,
                   submitted_log, ee_initialized, remote_jobs, printed,
                   enumerated>>

\* main() with --dry-run, lines 256-278: init_ee returns at once, with
\* --check-status the refusal is printed, otherwise the plan and the estimate
DryRun ==
    /\ pc = "idle"
    /\ \E a \in ArgChoices, check_status \in BOOLEAN :
        /\ args' = a
        /\ printed' = IF check_status
                      THEN [NoOutput EXCEPT !.mode = "refused"]
                      ELSE [NoOutput EXCEPT !.mode = "dry_run",
                                            !.est_tasks = est_tasks(a)]
    /\ pc' = "dry_done"
    /\ NoLoops
    /\ UNCHANGED <<progress_exists, progress_file, remote_empty,
                   completed_tasks, active_tasks, n_active, loaded_at_start,
                   ee_initialized, remote_jobs>>

\* main() with --check-status, lines 256, 281-284: Earth Engine is
\* initialized, a new downloader is built and status() prints its counts
CheckStatus ==
    /\ pc = "idle"
    /\ \E a \in ArgChoices : args' = a
    /\ ee_initialized' = TRUE
    /\ completed_tasks' = _load_progress
    /\ loaded_at_start' = _load_progress
    /\ active_tasks' = 0
    /\ n_active' = 0
    /\ printed' = [NoOutput EXCEPT !.mode = "status",
                                   !.active = n_active',
                                   !.completed = Cardinality(completed_tasks')]
    /\ pc' = "status_done"
    /\ NoLoops
    /\ UNCHANGED <<progress_exists, progress_file, remote_empty, remote_jobs>>

\* the remote service finishes one job that an ended process had submitted
OrphanCompletes ==
    /\ pc = "idle"
    /\ remote_jobs > 0
    /\ remote_jobs' = remote_jobs - 1
    /\ UNCHANGED <<progress_exists, progress_file, remote_empty, pc, args,
                   vi, mi, si, y0, sk, completed_tasks, active_tasks,
                   n_active, tasks_started, started, throttle_waits,
                   loaded_at_start, submitted_log, ee_initialized, printed,
                   enumerated>>

\* main returned or init_ee called sys.exit: the process ends
Exit ==
    /\ pc \in {"done", "dry_done", "status_done", "init_failed"}
    /\ ProcessGone

NextBatch ==
    \/ StartRun
    \/ StartExport
    \/ ThrottleWait
    \/ ThrottlePass
    \/ TaskCompletes
    \/ Interrupt
    \/ InitEeFails
    \/ DryRun
    \/ CheckStatus
    \/ OrphanCompletes
    \/ Exit

(***************************************************************************)
(* osm_data_gatherer.py                                                    *)
(***************************************************************************)
VARIABLES
    g_pc,            \* position of the gatherer process
    g_idx,           \* index into data_types of gather_all_data, 0: direct call
    max_retries,     \* argument of _execute_overpass_query
    attempt,         \* loop variable of _execute_overpass_query
    requests_made,   \* requests.post calls of the current query
    outcomes,        \* history: TRUE for a request that succeeded
    waits,           \* history: seconds slept between the requests
    q_result,        \* what _execute_overpass_query returned
    results,         \* results of gather_all_data, one entry per data type
    gathered,        \* history: how each gather function call ended
    pauses           \* history: seconds gather_all_data slept after each call

varsGather == <<g_pc, g_idx, max_retries, attempt, requests_made, outcomes,
                waits, q_result, results, gathered, pauses>>

\* largest max_retries a direct caller passes
MaxRetries == 4

\* the default of the max_retries parameter, line 88
DefaultRetries == 3

data_types == <<"roads", "buildings", "landuse", "natural_features",
                "amenities", "boundaries">>

\* line 115: the backoff before the retry that follows attempt a
WaitTimeLinear(a) == 2 * a

WaitTime(a) == 2 ^ a

\* line 114: a retry follows the failed attempt a
RetryFollowsAlways(a, n) == a < n

RetryFollows(a, n) == a < n - 1

InitGather ==
    /\ g_pc = "idle"
    /\ g_idx = 0
    /\ max_retries = 0
    /\ attempt = 0
    /\ requests_made = 0
    /\ outcomes = <<>>
    /\ waits = <<>>
    /\ q_result = "pending"
    /\ results = <<>>
    /\ gathered = <<>>
    /\ pauses = <<>>

\* entry of _execute_overpass_query(query, max_retries = n): range(n) is
\* empty for n = 0 and the function falls off its end
EnterQuery(n) ==
    /\ max_retries' = n
    /\ attempt' = 0
    /\ requests_made' = 0
    /\ outcomes' = <<>>
    /\ waits' = <<>>
    /\ IF n > 0
       THEN g_pc' = "query" /\ q_result' = "pending"
       ELSE g_pc' = "returned" /\ q_result' = "None"

\* a caller runs _execute_overpass_query with an explicit max_retries
DirectQuery ==
    /\ g_pc = "idle"
    /\ \E n \in 0..MaxRetries : EnterQuery(n)
    /\ g_idx' = 0
    /\ results' = <<>>
    /\ gathered' = <<>>
    /\ pauses' = <<>>

\* gather_all_data, lines 311-336: the first gather function is called
GatherAllStart ==
    /\ g_pc = "idle"
    /\ EnterQuery(DefaultRetries)
    /\ g_idx' = 1
    /\ results' = <<>>
    /\ gathered' = <<>>
    /\ pauses' = <<>>

\* lines 100-110: the request succeeds and its JSON is returned
PostOk ==
    /\ g_pc = "query"
    /\ requests_made' = requests_made + 1
    /\ outcomes' = Append(outcomes, TRUE)
    /\ q_result' = "response"
    /\ g_pc' = "returned"
    /\ UNCHANGED <<g_idx, max_retries, attempt, waits, results, gathered,
                   pauses>>

\* lines 112-120: the request raises RequestException
PostFail ==
    /\ g_pc = "query"
    /\ requests_made' = requests_made + 1
    /\ outcomes' = Append(outcomes, FALSE)
    /\ IF RetryFollows(attempt, max_retries)
       THEN /\ waits' = Append(waits, WaitTime(attempt))
            /\ attempt' = attempt + 1
            /\ IF attempt + 1 < max_retries
               THEN UNCHANGED <<g_pc, q_result>>
               ELSE g_pc' = "returned" /\ q_result' = "None"
       ELSE /\ q_result' = "None"
            /\ g_pc' = "returned"
            /\ UNCHANGED <<waits, attempt>>
    /\ UNCHANGED <<g_idx, max_retries, results, gathered, pauses>>

\* lines 164-167: how a gather function ends after the query returned d:
\* it returns None for no data, returns the path _save_data wrote, or
\* propagates the error _save_data raised while writing the file
GatherEnds(d) ==
    IF d = "response" THEN {"saved", "raised"} ELSE {"None"}

\* lines 339-340: the pause of gather_all_data after a gather function that
\* ended as outcome o, 0 where no sleep is executed
Pause(o) == IF o = "raised" THEN 0 ELSE 2

\* the query has returned: a direct caller is done; a gather function
\* (lines 164-167) saves the data, returns None or raises; gather_all_data
\* (lines 335-344) records the result and sleeps, or logs the error and
\* records None, and calls the next gather function
QueryReturns ==
    /\ g_pc = "returned"
    /\ IF g_idx = 0
       THEN /\ g_pc' = "idle"
            /\ UNCHANGED <<g_idx, max_retries, attempt, requests_made,
                           outcomes, waits, q_result, results, gathered,
                           pauses>>
       ELSE \E o \in GatherEnds(q_result) :
            /\ results' = Append(results,
                    IF o = "saved" THEN data_types[g_idx] ELSE "None")
            /\ gathered' = Append(gathered, o)
            /\ pauses' = Append(pauses, Pause(o))
            /\ IF g_idx < Len(data_types)
               THEN /\ g_idx' = g_idx + 1
                    /\ EnterQuery(DefaultRetries)
               ELSE /\ g_pc' = "idle"
                    /\ UNCHANGED <<g_idx, max_retries, attempt,
                                   requests_made, outcomes, waits, q_result>>

NextGather ==
    \/ DirectQuery
    \/ GatherAllStart
    \/ PostOk
    \/ PostFail
    \/ QueryReturns

(***************************************************************************)
(* osm_to_geojson.py                                                       *)
(***************************************************************************)
VARIABLES
    c_pc,          \* position of convert_osm_to_geojson
    osm_data,      \* the Overpass JSON document being converted
    c_idx,         \* elements of osm_data consumed by the loop of line 187
    features,      \* the list built by the loop
    feature_src,   \* history: index of the element each feature came from
    geojson        \* the returned FeatureCollection

varsConvert == <<c_pc, osm_data, c_idx, features, feature_src, geojson>>

\* longest element list of an input document
MaxElements == 2

Pt(lon, lat) == [lon |-> lon, lat |-> lat]

NoBounds == [minlon |-> 0, minlat |-> 0, maxlon |-> 0, maxlat |-> 0]

Element(type, id, ht, tags, hg, geometry, hb, bounds, lon, lat) ==
    [type |-> type, id |-> id, has_tags |-> ht, tags |-> tags,
     has_geometry |-> hg, geometry |-> geometry,
     has_bounds |-> hb, bounds |-> bounds, lon |-> lon, lat |-> lat]

Way(id, has_tags, tags, has_geometry, geometry) ==
    Element("way", id, has_tags, tags, has_geometry, geometry, FALSE,
            NoBounds, 0, 0)

GeomOpen == <<Pt(0, 0), Pt(1, 0), Pt(1, 1)>>

GeomClosed == <<Pt(0, 0), Pt(1, 0), Pt(1, 1), Pt(0, 0)>>

\* tag dictionaries of the input ways
TagChoices ==
    { <<>>,
      "highway" :> "residential",
      "building" :> "yes",
      ("building" :> "yes") @@ ("area" :> "no"),
      "area" :> "Yes",
      ("highway" :> "pedestrian") @@ ("area" :> "no") }

\* the elements input documents are made of
ElementChoices ==
    { Way(10, h, t, TRUE, g) :
        h \in {TRUE}, t \in TagChoices, g \in {GeomOpen, GeomClosed} }
    \cup
    { Way(11, FALSE, <<>>, TRUE, GeomOpen),
      Way(12, FALSE, <<>>, TRUE, GeomClosed),
      Way(13, TRUE, "building" :> "yes", FALSE, <<>>),
      Way(14, TRUE, "building" :> "yes", TRUE, <<>>),
      Way(15, TRUE, "building" :> "yes", TRUE, <<Pt(0, 0)>>),
      Element("node", 20, FALSE, <<>>, FALSE, <<>>, FALSE, NoBounds, 3, 7),
      Element("node", 21, TRUE, "natural" :> "peak", FALSE, <<>>, FALSE,
              NoBounds, 4, 8),
      Element("relation", 30, TRUE, "boundary" :> "administrative", FALSE,
              <<>>, TRUE,
              [minlon |-> 1, minlat |-> 2, maxlon |-> 3, maxlat |-> 4], 0, 0),
      Element("relation", 31, FALSE, <<>>, FALSE, <<>>, FALSE, NoBounds,
              0, 0),
      Element("area", 40, FALSE, <<>>, FALSE, <<>>, FALSE, NoBounds, 0, 0) }

ElementLists ==
    UNION { [1..n -> ElementChoices] : n \in 0..MaxElements }

\* str.lower() on the tag values that occur
Lower(v) ==
    CASE v = "Yes" -> "yes"
      [] v = "YES" -> "yes"
      [] v = "True" -> "true"
      [] OTHER -> v

\* lines 92-96
polygon_tags == {"building", "landuse", "natural", "leisure", "amenity",
                 "shop", "office", "industrial", "residential", "commercial",
                 "area"}

\* None, as returned by the way and relation converters
NoFeature == [type |-> "None"]

Feature(gtype, coordinates, properties) ==
    [type |-> "Feature",
     geometry |-> [type |-> gtype, coordinates |-> coordinates],
     properties |-> properties]

\* lines 40-47, 78-85, 135-142: properties.update(tags)
Properties(e) ==
    LET base == ("osm_id" :> e.id) @@ ("osm_type" :> e.type)
    IN  IF e.has_tags THEN e.tags @@ base ELSE base

\* lines 30-56
_convert_node_to_geojson_swapped(node) ==
    Feature("Point", <<node.lat, node.lon>>, Properties(node))

_convert_node_to_geojson(node) ==
    Feature("Point", <<node.lon, node.lat>>, Properties(node))

\* lines 98-104
IsAreaAnyTag(way) ==
    /\ way.has_tags
    /\ \E tag \in polygon_tags : tag \in DOMAIN way.tags

IsArea(way) ==
    IF way.has_tags
    THEN IF "area" \in DOMAIN way.tags
         THEN Lower(way.tags["area"]) \in {"yes", "true", "1"}
         ELSE \E tag \in polygon_tags : tag \in DOMAIN way.tags
    ELSE FALSE

\* lines 58-123
_convert_way_to_geojson(way) ==
    IF ~way.has_geometry \/ way.geometry = <<>>
    THEN NoFeature
    ELSE LET coordinates ==
                 [i \in 1..Len(way.geometry) |->
                     <<way.geometry[i].lon, way.geometry[i].lat>>]
             is_closed == coordinates[1] = coordinates[Len(coordinates)]
         IN  IF Len(coordinates) < 2
             THEN NoFeature
             ELSE IF is_closed /\ IsArea(way)
             THEN Feature("Polygon", <<coordinates>>, Properties(way))
             ELSE Feature("LineString", coordinates, Properties(way))

\* lines 125-166
_convert_relation_to_geojson(relation) ==
    IF relation.has_bounds
    THEN LET b == relation.bounds IN
         Feature("Polygon",
                 << << <<b.minlon, b.minlat>>, <<b.maxlon, b.minlat>>,
                       <<b.maxlon, b.maxlat>>, <<b.minlon, b.maxlat>>,
                       <<b.minlon, b.minlat>> >> >>,
                 Properties(relation))
    ELSE NoFeature

NoDocument == [has_elements |-> FALSE, elements |-> <<>>, has_osm3s |-> FALSE]

NoResult == [type |-> "None", features |-> <<>>, has_metadata |-> FALSE,
             feature_count |-> 0]

InitConvert ==
    /\ c_pc = "idle"
    /\ osm_data = NoDocument
    /\ c_idx = 0
    /\ features = <<>>
    /\ feature_src = <<>>
    /\ geojson = NoResult

\* convert_osm_to_geojson is entered with a document, lines 168-185
ConvertStart ==
    /\ c_pc = "idle"
    /\ geojson = NoResult
    /\ \E has_elements, has_osm3s \in BOOLEAN, elements \in ElementLists :
        /\ has_elements \/ elements = <<>>
        /\ osm_data' = [has_elements |-> has_elements, elements |-> elements,
                        has_osm3s |-> has_osm3s]
        /\ IF has_elements
           THEN c_pc' = "loop" /\ geojson' = NoResult
           ELSE /\ c_pc' = "idle"
                /\ geojson' = [type |-> "FeatureCollection",
                               features |-> <<>>, has_metadata |-> FALSE,
                               feature_count |-> 0]
    /\ c_idx' = 0
    /\ features' = <<>>
    /\ feature_src' = <<>>

\* one iteration of the loop of lines 187-201
ConvertElement ==
    /\ c_pc = "loop"
    /\ c_idx < Len(osm_data.elements)
    /\ LET element == osm_data.elements[c_idx + 1]
           known   == element.type \in {"node", "way", "relation"}
           feature == CASE element.type = "node" ->
                               _convert_node_to_geojson(element)
                        [] element.type = "way" ->
                               _convert_way_to_geojson(element)
                        [] element.type = "relation" ->
                               _convert_relation_to_geojson(element)
                        [] OTHER -> NoFeature
       IN  IF known /\ feature # NoFeature
           THEN /\ features' = Append(features, feature)
                /\ feature_src' = Append(feature_src, c_idx + 1)
           ELSE UNCHANGED <<features, feature_src>>
    /\ c_idx' = c_idx + 1
    /\ UNCHANGED <<c_pc, osm_data, geojson>>

\* the FeatureCollection is built and returned, lines 203-218
ConvertFinish ==
    /\ c_pc = "loop"
    /\ c_idx = Len(osm_data.elements)
    /\ geojson' = [type |-> "FeatureCollection", features |-> features,
                   has_metadata |-> osm_data.has_osm3s,
                   feature_count |-> IF osm_data.has_osm3s
                                     THEN Len(features) ELSE 0]
    /\ c_pc' = "idle"
    /\ UNCHANGED <<osm_data, c_idx, features, feature_src>>

NextConvert ==
    \/ ConvertStart
    \/ ConvertElement
    \/ ConvertFinish

(***************************************************************************)
(* scripts/cmip_processor.py                                               *)
(*                                                                         *)
(* A dataset is its coordinate axes and the names of its data variables.   *)
(* Spatial coordinates and bucket sizes are integers in one common unit;   *)
(* times are days in a calendar of 30-day months.                          *)
(***************************************************************************)
VARIABLES
    cm_dataset,    \* self.dataset of the CMIPProcessor
    cm_call,       \* the method call in progress or just returned
    cm_result      \* what the call returned or that it raised

varsCmip == <<cm_dataset, cm_call, cm_result>>

\* longest time axis of an input dataset
MaxTimeSteps == 4

CeilDiv(a, b) == (a + b - 1) \div b

SeqMin(q) == CHOOSE x \in Range(q) : \A y \in Range(q) : x <= y

SeqMax(q) == CHOOSE x \in Range(q) : \A y \in Range(q) : x >= y

\* numpy.arange on integers
Arange(start, stop, step) ==
    IF stop <= start THEN <<>>
    ELSE [i \in 1..CeilDiv(stop - start, step) |-> start + (i - 1) * step]

\* the ascending sequence of the elements of a set of integers
RECURSIVE SortedSeq(_)
SortedSeq(S) ==
    IF S = {} THEN <<>>
    ELSE LET m == CHOOSE x \in S : \A y \in S : x <= y
         IN  <<m>> \o SortedSeq(S \ {m})

Dataset(dims, lat, lon, time, kind, lat_bins, lon_bins, data_vars) ==
    [dims |-> dims, lat |-> lat, lon |-> lon, time |-> time,
     time_kind |-> kind, lat_bins |-> lat_bins, lon_bins |-> lon_bins,
     data_vars |-> data_vars]

\* xr.Dataset()
EmptyDataset == Dataset({}, <<>>, <<>>, <<>>, "none", <<>>, <<>>, {})

Returned(ds) == [raised |-> FALSE, ds |-> ds]

Raised == [raised |-> TRUE, ds |-> EmptyDataset]

LatAxes == { <<40, 41, 42, 43, 44, 45>>, <<40, 42, 44>> }

LonAxes == { <<0, 1, 2, 3>>, <<0, 3>> }

TimeAxes ==
    { [i \in 1..n |-> t0 + (i - 1) * step] :
        t0 \in {0, 29, 89}, step \in {1, 30}, n \in 1..MaxTimeSteps }

\* datetime: decoded to datetime64 and indexed; numeric: not decoded;
\* unindexed: datetime64 values that resample rejects with TypeError
TimeKinds == {"datetime", "numeric", "unindexed"}

InputDatasets ==
    { Dataset({"time", "lat", "lon"}, la, lo, ti, k, <<>>, <<>>,
              {"temperature", "precipitation"}) :
        la \in LatAxes, lo \in LonAxes, ti \in TimeAxes, k \in TimeKinds }

BucketSizes == {2, 4}

AggMethods == {"mean", "max", "bogus"}

SupportedMethodsAny == {"bogus", "mean", "median", "max", "min", "sum", "first", "last",
                     "std", "var"}

SupportedMethods == {"mean", "median", "max", "min", "sum", "first", "last",
                     "std", "var"}

VariableLists == { <<>>, <<"temperature">>, <<"humidity">> }

Frequencies == {"M", "ME", "Q", "QE", "Y", "YE", "3M", "3ME", "10D", "bogus"}

\* lines 185-189 and 282-286: the variables filter of the bucketing methods
FilterVariables(ds, variables) ==
    LET existing_vars == Range(variables) \cap ds.data_vars
    IN  IF variables # <<>> /\ existing_vars # {}
        THEN [ds EXCEPT !.data_vars = existing_vars]
        ELSE ds

\* pandas.cut, right-closed intervals: positions of the values in bin i
BinMembers(values, bins, i) ==
    {k \in 1..Len(values) : bins[i] < values[k] /\ values[k] <= bins[i + 1]}

\* the bins a groupby_bins iteration yields a group for, in label order
GroupBins(values, bins) ==
    SortedSeq({i \in 1..Len(bins) - 1 : BinMembers(values, bins, i) # {}})

\* lines 225-250: the aggregate of one group, the bin labels attached as
\* scalar coordinates
CellData(ds, lat_bin, lon_bin) ==
    [ds EXCEPT !.dims = ds.dims \ {"lat", "lon"},
               !.lat = <<>>, !.lon = <<>>,
               !.lat_bins = <<lat_bin>>, !.lon_bins = <<lon_bin>>]

\* xr.merge of the result with one more cell
Merge(result, agg_data) ==
    [result EXCEPT
        !.lat_bins = SortedSeq(Range(result.lat_bins)
                               \cup Range(agg_data.lat_bins)),
        !.lon_bins = SortedSeq(Range(result.lon_bins)
                               \cup Range(agg_data.lon_bins)),
        !.data_vars = result.data_vars \cup agg_data.data_vars]

\* lines 252-258
AddCell(result, agg_data) ==
    IF "lat_bins" \in result.dims /\ "lon_bins" \in result.dims
    THEN Merge(result, agg_data)
    ELSE agg_data

\* the two nested loops of lines 218-258 over the cells cells[i..]
RECURSIVE CellLoop(_, _, _, _)
CellLoop(ds, cells, i, result) ==
    IF i > Len(cells) THEN result
    ELSE CellLoop(ds, cells, i + 1,
                  AddCell(result, CellData(ds, cells[i][1], cells[i][2])))

\* lines 164-260
bucket_spatial(ds0, lat_bucket_size, lon_bucket_size, agg_method, variables) ==
    LET dataset == FilterVariables(ds0, variables)
        lat_bins == Arange(SeqMin(dataset.lat),
                           SeqMax(dataset.lat) + lat_bucket_size,
                           lat_bucket_size)
        lon_bins == Arange(SeqMin(dataset.lon),
                           SeqMax(dataset.lon) + lon_bucket_size,
                           lon_bucket_size)
        lat_labels == [i \in 1..Len(lat_bins) - 1 |->
                          lat_bins[i] + (lat_bucket_size \div 2)]
        lon_labels == [i \in 1..Len(lon_bins) - 1 |->
                          lon_bins[i] + (lon_bucket_size \div 2)]
        lat_groups == GroupBins(dataset.lat, lat_bins)
        lon_groups == GroupBins(dataset.lon, lon_bins)
        cells == [c \in 1..Len(lat_groups) * Len(lon_groups) |->
                    <<lat_labels[lat_groups[((c - 1) \div Len(lon_groups)) + 1]],
                      lon_labels[lon_groups[((c - 1) % Len(lon_groups)) + 1]]>>]
    IN  IF cells # <<>> /\ agg_method \notin SupportedMethods
        THEN Raised
        ELSE Returned(CellLoop(dataset, cells, 1, EmptyDataset))

\* lines 288-296: the deprecated frequency names
FixFrequency(bucket_size) ==
    CASE bucket_size = "M" -> "ME"
      [] bucket_size = "Q" -> "QE"
      [] bucket_size = "Y" -> "YE"
      [] bucket_size = "3M" -> "3ME"
      [] OTHER -> bucket_size

\* lines 303-315 and 336-344: the stride of the fallback
StrideQuarterOff(bucket_size) ==
    CASE bucket_size \in {"ME", "M", "1ME", "1M"} -> 1
      [] bucket_size \in {"QE", "Q", "3ME", "3M"} -> 4
      [] bucket_size \in {"YE", "Y", "12ME", "12M"} -> 12
      [] OTHER -> 1

Stride(bucket_size) ==
    CASE bucket_size \in {"ME", "M", "1ME", "1M"} -> 1
      [] bucket_size \in {"QE", "Q", "3ME", "3M"} -> 3
      [] bucket_size \in {"YE", "Y", "12ME", "12M"} -> 12
      [] OTHER -> 1

\* dataset.isel(time=slice(0, None, buckets)), lines 324 and 347
StrideTimeFloor(time, buckets) ==
    [i \in 1..Max2(1, Len(time) \div buckets) |-> time[(i - 1) * buckets + 1]]

StrideTime(time, buckets) ==
    [i \in 1..CeilDiv(Len(time), buckets) |-> time[(i - 1) * buckets + 1]]

\* the frequencies resample accepts
ResampleFrequencies == {"ME", "QE", "YE", "3ME", "10D"}

\* the bucket of day t for a resample that starts at day t0: calendar
\* months, quarters and years; three-month bins that follow the month of
\* t0; ten-day bins from t0
BucketOf(freq, t0, t) ==
    CASE freq = "ME" -> t \div 30
      [] freq = "QE" -> t \div 90
      [] freq = "YE" -> t \div 360
      [] freq = "3ME" -> LET k == (t \div 30) - (t0 \div 30)
                         IN  IF k = 0 THEN 0 ELSE 1 + ((k - 1) \div 3)
      [] freq = "10D" -> (t - t0) \div 10

\* dataset.resample(time=freq) followed by a reduction, lines 330-370:
\* one step for every bucket from that of the first to that of the last
\* time, labelled by the bucket
ResampleTime(time, freq) ==
    LET first == BucketOf(freq, time[1], time[1])
        last  == BucketOf(freq, time[1], time[Len(time)])
    IN  [i \in 1..(last - first + 1) |-> first + i - 1]

\* lines 262-372
bucket_temporal(ds0, bucket_size0, agg_method, variables) ==
    LET dataset == FilterVariables(ds0, variables)
        bucket_size == FixFrequency(bucket_size0)
        strided == Returned([dataset EXCEPT
                       !.time = StrideTime(dataset.time, Stride(bucket_size))])
    IN  IF dataset.time_kind \in {"numeric", "unindexed"}
        THEN strided
        ELSE IF bucket_size \notin ResampleFrequencies
        THEN Raised
        ELSE IF agg_method \notin SupportedMethods
        THEN Raised
        ELSE Returned([dataset EXCEPT
                 !.time = ResampleTime(dataset.time, bucket_size)])

\* lines 445-455: the stride fallback of process_to_datacube
SpatialStride(ds, lat_bucket_size, lon_bucket_size, native) ==
    LET lat_res == native.lat[2] - native.lat[1]
        lon_res == native.lon[2] - native.lon[1]
        lat_stride == Max2(1, lat_bucket_size \div lat_res)
        lon_stride == Max2(1, lon_bucket_size \div lon_res)
    IN  [ds EXCEPT
            !.lat = [i \in 1..CeilDiv(Len(ds.lat), lat_stride) |->
                        ds.lat[(i - 1) * lat_stride + 1]],
            !.lon = [i \in 1..CeilDiv(Len(ds.lon), lon_stride) |->
                        ds.lon[(i - 1) * lon_stride + 1]]]

\* lines 374-459; c is the record of the arguments
process_to_datacube(ds0, c) ==
    LET dataset == IF c.variables # <<>>
                   THEN [ds0 EXCEPT !.data_vars =
                            Range(c.variables) \cap ds0.data_vars]
                   ELSE ds0
        temporal == bucket_temporal(ds0, c.time_bucket_size,
                                    c.temporal_agg_method, c.variables)
        after_time == IF c.time_bucket_size # "None" /\ ~temporal.raised
                      THEN temporal.ds ELSE dataset
        spatial == bucket_spatial(ds0, c.lat_bucket_size, c.lon_bucket_size,
                                  c.spatial_agg_method, c.variables)
    IN  IF c.lat_bucket_size # 0 /\ c.lon_bucket_size # 0
        THEN IF ~spatial.raised
             THEN spatial.ds
             ELSE SpatialStride(after_time, c.lat_bucket_size,
                                c.lon_bucket_size, ds0)
        ELSE after_time

NoCall == [op |-> "none", lat_bucket_size |-> 0, lon_bucket_size |-> 0,
           time_bucket_size |-> "None", spatial_agg_method |-> "mean",
           temporal_agg_method |-> "mean", variables |-> <<>>]

InitCmip ==
    /\ cm_dataset = EmptyDataset
    /\ cm_call = NoCall
    /\ cm_result = Returned(EmptyDataset)

\* CMIPProcessor(data_path), lines 77-113
CmLoad ==
    /\ cm_dataset = EmptyDataset
    /\ cm_dataset' \in InputDatasets
    /\ UNCHANGED <<cm_call, cm_result>>

\* a call of bucket_spatial
CmBucketSpatial ==
    /\ cm_dataset # EmptyDataset
    /\ cm_call.op = "none"
    /\ \E la \in BucketSizes, lo \in BucketSizes, m \in AggMethods,
          v \in VariableLists :
        /\ cm_call' = [NoCall EXCEPT !.op = "bucket_spatial",
                          !.lat_bucket_size = la, !.lon_bucket_size = lo,
                          !.spatial_agg_method = m, !.variables = v]
        /\ cm_result' = bucket_spatial(cm_dataset, la, lo, m, v)
    /\ UNCHANGED cm_dataset

\* a call of bucket_temporal
CmBucketTemporal ==
    /\ cm_dataset # EmptyDataset
    /\ cm_call.op = "none"
    /\ \E f \in Frequencies, m \in AggMethods, v \in VariableLists :
        /\ cm_call' = [NoCall EXCEPT !.op = "bucket_temporal",
                          !.time_bucket_size = f,
                          !.temporal_agg_method = m, !.variables = v]
        /\ cm_result' = bucket_temporal(cm_dataset, f, m, v)
    /\ UNCHANGED cm_dataset

\* a call of process_to_datacube; 0 and "None" stand for an omitted size
CmProcess ==
    /\ cm_dataset # EmptyDataset
    /\ cm_call.op = "none"
    /\ \E b \in {<<0, 0>>, <<2, 2>>, <<4, 2>>},
          f \in Frequencies \cup {"None"},
          sm \in AggMethods, tm \in AggMethods, v \in VariableLists :
        LET c == [op |-> "process_to_datacube",
                  lat_bucket_size |-> b[1], lon_bucket_size |-> b[2],
                  time_bucket_size |-> f, spatial_agg_method |-> sm,
                  temporal_agg_method |-> tm, variables |-> v]
        IN  /\ cm_call' = c
            /\ cm_result' = Returned(process_to_datacube(cm_dataset, c))
    /\ UNCHANGED cm_dataset

\* the caller drops the result
CmReturn ==
    /\ cm_call.op # "none"
    /\ cm_call' = NoCall
    /\ cm_result' = Returned(EmptyDataset)
    /\ UNCHANGED cm_dataset

NextCmip ==
    \/ CmLoad
    \/ CmBucketSpatial
    \/ CmBucketTemporal
    \/ CmProcess
    \/ CmReturn

(***************************************************************************)
(* scripts/datacube_builder.py                                             *)
(*                                                                         *)
(* A dataset is its coordinates by name and the names of its data          *)
(* variables.  Latitudes, longitudes and resolutions are whole degrees,    *)
(* times are days in a calendar of 30-day months.  self.datasets is a      *)
(* dict: a sequence of (name, dataset) entries in insertion order.  A       *)
(* behaviour follows a builder up to its first datacube.                   *)
(***************************************************************************)
VARIABLES
    b_datasets,            \* self.datasets
    b_combined_datacube,   \* self.combined_datacube
    b_call,                \* the method call in progress or just returned
    b_result               \* what the call returned or that it raised

varsBuilder == <<b_datasets, b_combined_datacube, b_call, b_result>>

\* number of dataset names a caller registers
MaxDatasets == 2

NamePool == <<"a", "a_b", "b", "c">>

DatasetNames == {NamePool[i] : i \in 1..Min2(MaxDatasets, Len(NamePool))}

BuilderDataset(coords, data_vars) == [coords |-> coords, data_vars |-> data_vars]

DatasetChoices ==
    { BuilderDataset(("lat" :> <<40, 41, 42, 43, 44, 45>>)
                        @@ ("lon" :> <<174, 176, 178>>)
                        @@ ("time" :> <<0, 30, 60>>),
                     {"temperature"}),
      BuilderDataset(("latitude" :> <<43, 47>>)
                        @@ ("longitude" :> <<182, 184, 187>>)
                        @@ ("date" :> <<29, 59, 89, 119>>),
                     {"b_c", "c"}),
      BuilderDataset(("y" :> <<41, 44>>) @@ ("x" :> <<175, 179>>)
                        @@ ("t" :> <<15>>),
                     {"c"}),
      BuilderDataset(("lat" :> <<42, 46>>) @@ ("lon" :> <<177, 180>>),
                     {"elevation"}),
      BuilderDataset(("row" :> <<1, 2>>) @@ ("col" :> <<1, 2>>)
                        @@ ("time" :> <<0, 30>>),
                     {"b_c"}) }

Resolutions == {<<2, 2>>, <<4, 2>>}

TimeResolutions == {"ME", "QE", "bogus"}

\* <<>> stands for bounds the caller did not supply
NoBound == <<>>

BoundChoices ==
    { [lat |-> NoBound, lon |-> NoBound, time |-> NoBound],
      [lat |-> <<41, 44>>, lon |-> <<175, 178>>, time |-> <<0, 119>>] }

InterpOutcomes == {"ok", "oindex", "error"}

lat_names == <<"lat", "latitude", "y">>

lon_names == <<"lon", "longitude", "x">>

time_names == <<"time", "date", "t">>

\* lines 129, 134, 140, 369-371: next((dim for dim in names if ...), None)
FindDim(names, dataset) ==
    IF \E i \in 1..Len(names) : names[i] \in DOMAIN dataset.coords
    THEN names[CHOOSE i \in 1..Len(names) :
                  /\ names[i] \in DOMAIN dataset.coords
                  /\ \A j \in 1..(i - 1) : names[j] \notin DOMAIN dataset.coords]
    ELSE "None"

\* lines 126-137: the running minimum and maximum over the datasets
RECURSIVE DatasetBounds(_, _, _, _, _)
DatasetBounds(datasets, names, i, lo, hi) ==
    IF i > Len(datasets) THEN <<lo, hi>>
    ELSE LET dataset == datasets[i].dataset
             dim     == FindDim(names, dataset)
         IN  IF dim = "None"
             THEN DatasetBounds(datasets, names, i + 1, lo, hi)
             ELSE DatasetBounds(datasets, names, i + 1,
                                Min2(lo, SeqMin(dataset.coords[dim])),
                                Max2(hi, SeqMax(dataset.coords[dim])))

\* lines 139-149: every time value of the datasets with a time dimension
DatasetTimes(datasets) ==
    UNION { Range(datasets[i].dataset.coords[
                      FindDim(time_names, datasets[i].dataset)]) :
            i \in {j \in 1..Len(datasets) :
                      FindDim(time_names, datasets[j].dataset) # "None"} }

GridAxisNoHalfStep(min, max, resolution) == Arange(min, max, resolution)

\* lines 162-163
GridAxis(min, max, resolution) ==
    Arange(min, max + (resolution \div 2), resolution)

\* xr.date_range(start, end, freq): the period ends within [start, end]
DateRange(min_time, max_time, freq) ==
    LET span == IF freq = "ME" THEN 30 ELSE 90
    IN  SortedSeq({t \in min_time..max_time : (t + 1) % span = 0})

\* lines 245-254 and 265-274
FallbackTimeSteps(time_resolution) ==
    LET steps == IF time_resolution \in {"QE", "Q", "3ME", "3M"} THEN 4
                 ELSE IF time_resolution \in {"YE", "Y", "12ME", "12M"} THEN 1
                 ELSE 12
    IN  Arange(0, steps * 5, 1)

GridRaised == [raised |-> TRUE, lats |-> <<>>, lons |-> <<>>, times |-> <<>>]

\* lines 166-276: the unified time grid.  Bounds taken from the datasets are
\* 0-d arrays, which the cftime branch cannot step through, so it falls back
\* to integer steps; bounds given by the caller go to xr.date_range
TimeGrid(c, from_datasets, min_time, max_time) ==
    LET known == c.time_resolution \in {"ME", "QE"}
        dates == [raised |-> FALSE,
                  times |-> DateRange(min_time, max_time, c.time_resolution)]
        steps == [raised |-> FALSE,
                  times |-> FallbackTimeSteps(c.time_resolution)]
    IN  IF c.cftime
        THEN IF from_datasets THEN steps
             ELSE IF known THEN dates
             ELSE [raised |-> TRUE, times |-> <<>>]
        ELSE IF known THEN dates ELSE steps

\* lines 93-278
create_unified_grid(datasets, c) ==
    LET lat_found == DatasetBounds(datasets, lat_names, 1, 90, -90)
        lon_found == DatasetBounds(datasets, lon_names, 1, 180, -180)
        lat_range == IF c.bounds.lat # NoBound THEN c.bounds.lat ELSE lat_found
        lon_range == IF c.bounds.lon # NoBound THEN c.bounds.lon ELSE lon_found
        found     == DatasetTimes(datasets)
        no_time   == c.bounds.time = NoBound /\ found = {}
        min_time  == IF c.bounds.time # NoBound THEN c.bounds.time[1]
                     ELSE SeqMin(SortedSeq(found))
        max_time  == IF c.bounds.time # NoBound THEN c.bounds.time[2]
                     ELSE SeqMax(SortedSeq(found))
        time_grid == TimeGrid(c, c.bounds.time = NoBound, min_time, max_time)
    IN  IF no_time THEN GridRaised
        ELSE IF time_grid.raised THEN GridRaised
        ELSE [raised |-> FALSE,
              lats   |-> GridAxis(lat_range[1], lat_range[2],
                                  c.lat_resolution),
              lons   |-> GridAxis(lon_range[1], lon_range[2],
                                  c.lon_resolution),
              times  |-> time_grid.times]

IdentifiedWithoutTime(dataset) ==
    /\ FindDim(lat_names, dataset) # "None"
    /\ FindDim(lon_names, dataset) # "None"

\* lines 369-375
Identified(dataset) ==
    /\ FindDim(lat_names, dataset) # "None"
    /\ FindDim(lon_names, dataset) # "None"
    /\ FindDim(time_names, dataset) # "None"

Abs(x) == IF x < 0 THEN -x ELSE x

\* lines 421-422: np.argmin(np.abs(source - target)), the first minimum
NearestIndexOne(source, target) == 1

NearestIndex(source, target) ==
    CHOOSE i \in 1..Len(source) :
        /\ \A j \in 1..Len(source) :
              Abs(source[i] - target) <= Abs(source[j] - target)
        /\ \A j \in 1..(i - 1) :
              Abs(source[j] - target) > Abs(source[i] - target)

\* lines 401-426: the index maps of the nearest neighbour fallback
NearestMapping(source, target) ==
    [i \in 1..Len(target) |-> NearestIndex(source, target[i])]

prefixed_name_bare(name, var_name) == var_name

\* line 602
prefixed_name(name, var_name) == name \o "_" \o var_name

\* lines 378-603 for one dataset: its variables on the target grid under
\* their prefixed names, each with where it comes from
RegriddedVars(name, dataset, grid, interp) ==
    LET lat_dim == FindDim(lat_names, dataset)
        lon_dim == FindDim(lon_names, dataset)
        names   == {prefixed_name(name, v) : v \in dataset.data_vars}
    IN  [n \in names |->
            [dataset  |-> name,
             variable |-> CHOOSE v \in dataset.data_vars :
                              prefixed_name(name, v) = n,
             lat_mapping |-> IF interp = "oindex"
                             THEN NearestMapping(dataset.coords[lat_dim],
                                                 grid.lats)
                             ELSE <<>>,
             lon_mapping |-> IF interp = "oindex"
                             THEN NearestMapping(dataset.coords[lon_dim],
                                                 grid.lons)
                             ELSE <<>>]]

\* lines 364-603: combined_data_vars after the datasets from i on
RECURSIVE CombineLoop(_, _, _, _, _)
CombineLoop(datasets, grid, interp, i, combined_data_vars) ==
    IF i > Len(datasets) THEN combined_data_vars
    ELSE IF ~Identified(datasets[i].dataset)
    THEN CombineLoop(datasets, grid, interp, i + 1, combined_data_vars)
    ELSE CombineLoop(datasets, grid, interp, i + 1,
                     RegriddedVars(datasets[i].name, datasets[i].dataset,
                                   grid, interp) @@ combined_data_vars)

NoDatacube == [data_vars |-> <<>>, coords |-> <<>>]

BuildRaised == [raised |-> TRUE, cube |-> NoDatacube]

\* lines 280-615
build_datacube(datasets, c) ==
    LET grid == create_unified_grid(datasets, c)
    IN  IF datasets = <<>> THEN BuildRaised
        ELSE IF grid.raised THEN BuildRaised
        ELSE IF /\ c.interp = "error"
                /\ \E i \in 1..Len(datasets) : Identified(datasets[i].dataset)
        THEN BuildRaised
        ELSE [raised |-> FALSE,
              cube |-> [data_vars |-> CombineLoop(datasets, grid, c.interp,
                                                  1, <<>>),
                        coords |-> ("lat" :> grid.lats) @@ ("lon" :> grid.lons)
                                      @@ ("time" :> grid.times)]]

NoBuilderCall == [op |-> "none", lat_resolution |-> 0, lon_resolution |-> 0,
                  time_resolution |-> "None",
                  bounds |-> [lat |-> NoBound, lon |-> NoBound,
                              time |-> NoBound],
                  cftime |-> FALSE, interp |-> "ok"]

NoBuilderResult == [raised |-> FALSE]

InitBuilder ==
    /\ b_datasets = <<>>
    /\ b_combined_datacube = NoDatacube
    /\ b_call = NoBuilderCall
    /\ b_result = NoBuilderResult

\* lines 76: self.datasets[name] = dataset
SetItem(datasets, name, dataset) ==
    IF \E i \in 1..Len(datasets) : datasets[i].name = name
    THEN [i \in 1..Len(datasets) |->
             IF datasets[i].name = name
             THEN [name |-> name, dataset |-> dataset] ELSE datasets[i]]
    ELSE Append(datasets, [name |-> name, dataset |-> dataset])

\* add_dataset, lines 68-77
AddDataset ==
    /\ b_call.op = "none"
    /\ b_combined_datacube = NoDatacube
    /\ \E name \in DatasetNames, dataset \in DatasetChoices :
          b_datasets' = SetItem(b_datasets, name, dataset)
    /\ UNCHANGED <<b_combined_datacube, b_call, b_result>>

\* a call of create_unified_grid; cftime tells whether the module imports
CallCreateUnifiedGrid ==
    /\ b_call.op = "none"
    /\ b_combined_datacube = NoDatacube
    /\ \E r \in Resolutions, f \in TimeResolutions, b \in BoundChoices,
          cf \in BOOLEAN :
        LET c == [op |-> "create_unified_grid",
                  lat_resolution |-> r[1], lon_resolution |-> r[2],
                  time_resolution |-> f, bounds |-> b, cftime |-> cf,
                  interp |-> "ok"]
        IN  /\ b_call' = c
            /\ b_result' = create_unified_grid(b_datasets, c)
    /\ UNCHANGED <<b_datasets, b_combined_datacube>>

\* a call of build_datacube; interp is what the interpolation primitive does
CallBuildDatacube ==
    /\ b_call.op = "none"
    /\ b_combined_datacube = NoDatacube
    /\ \E r \in Resolutions, f \in TimeResolutions, b \in BoundChoices,
          cf \in BOOLEAN, ip \in InterpOutcomes :
        LET c == [op |-> "build_datacube",
                  lat_resolution |-> r[1], lon_resolution |-> r[2],
                  time_resolution |-> f, bounds |-> b, cftime |-> cf,
                  interp |-> ip]
            r0 == build_datacube(b_datasets, c)
        IN  /\ b_call' = c
            /\ b_result' = r0
            /\ b_combined_datacube' =
                  IF r0.raised THEN b_combined_datacube ELSE r0.cube
    /\ UNCHANGED b_datasets

\* the caller drops the result
BuilderReturn ==
    /\ b_call.op # "none"
    /\ b_call' = NoBuilderCall
    /\ b_result' = NoBuilderResult
    /\ UNCHANGED <<b_datasets, b_combined_datacube>>

NextBuilder ==
    \/ AddDataset
    \/ CallCreateUnifiedGrid
    \/ CallBuildDatacube
    \/ BuilderReturn

(***************************************************************************)
(* scripts/landfire_processor.py                                           *)
(*                                                                         *)
(* A raster is its height and width.  A dataset is its dimensions, its     *)
(* coordinates by name and the names of its data variables; a scalar       *)
(* coordinate is a coordinate that is no dimension.  lf_self holds the     *)
(* attributes of one LandfireProcessor.                                    *)
(***************************************************************************)
VARIABLES
    lf_self,      \* raw_data_path, tiff_path, raw_dataset, processed_dataset
    lf_call,      \* the method call in progress or just returned
    lf_result     \* what the call returned or that it raised

varsLandfire == <<lf_self, lf_call, lf_result>>

\* "minx miny maxx maxy" of the processor, whole degrees
LfBbox == [minx |-> 0, miny |-> 40, maxx |-> 4, maxy |-> 44]

NoRaster == [height |-> 0, width |-> 0]

Rasters == {[height |-> h, width |-> w] : h \in {2, 3, 5}, w \in {2, 3}}

LfDataset(dims, coords, data_vars) ==
    [is_none |-> FALSE, dims |-> dims, coords |-> coords,
     data_vars |-> data_vars]

\* None in place of a dataset
NoneDataset ==
    [is_none |-> TRUE, dims |-> {}, coords |-> <<>>, data_vars |-> {}]

\* xr.Dataset()
EmptyLfDataset == LfDataset({}, <<>>, {})

\* np.linspace on values an even spacing of which is whole
Linspace(start, stop, num) ==
    [i \in 1..num |->
        IF num = 1 THEN start
        ELSE start + (((i - 1) * (stop - start)) \div (num - 1))]

LfMethods == {"mode", "majority", "first", "last"}

\* "bogus" is a string that names no method, "foreign" an object that is
\* neither a string nor a member of the enumeration
LfMethodChoices == {"mode", "first", "bogus", "foreign"}

LfOk(p, value) == [raised |-> FALSE, error |-> "None", self |-> p, value |-> value]

LfRaise(p, error) ==
    [raised |-> TRUE, error |-> error, self |-> p, value |-> NoneDataset]

\* what the environment does during a call: the download succeeds or not,
\* the raster the archive holds, whether rioxarray reprojects
LfEnvironments ==
    [download_ok : BOOLEAN, zip : Rasters \cup {NoRaster}, rio : BOOLEAN]

\* lines 70-99
NewProcessor ==
    [raw_data_path |-> FALSE, tiff_path |-> NoRaster,
     raw_dataset |-> NoneDataset, processed_dataset |-> NoneDataset]

\* lines 112-136
download_data(p, e) ==
    IF e.download_ok
    THEN LfOk([p EXCEPT !.raw_data_path = TRUE], NoneDataset)
    ELSE LfRaise(p, "Exception")

\* lines 138-169
extract_data_any_path(p, e) ==
    IF e.zip = NoRaster THEN LfRaise(p, "FileNotFoundError")
    ELSE LfOk([p EXCEPT !.tiff_path = e.zip], NoneDataset)

extract_data(p, e) ==
    IF ~p.raw_data_path THEN LfRaise(p, "ValueError")
    ELSE IF e.zip = NoRaster THEN LfRaise(p, "FileNotFoundError")
    ELSE LfOk([p EXCEPT !.tiff_path = e.zip], NoneDataset)

\* lines 193-232: the raster in the coordinates of its own projection
RawDataset(raster) ==
    LfDataset({"y", "x"},
              ("y" :> [i \in 1..raster.height |-> 1000 - 30 * i])
                 @@ ("x" :> [i \in 1..raster.width |-> 500 + 30 * i]),
              {"evt"})

\* lines 171-237
create_dataset(p, e) ==
    LET x == IF p.tiff_path = NoRaster THEN extract_data(p, e)
             ELSE LfOk(p, NoneDataset)
        ds == RawDataset(x.self.tiff_path)
    IN  IF x.raised THEN x
        ELSE LfOk([x.self EXCEPT !.raw_dataset = ds], ds)

\* lines 254-282: rioxarray keeps the dimensions y and x, the fallback
\* spreads the rows and columns evenly over the bounding box
Reprojected(raw, rio) ==
    IF rio THEN raw
    ELSE LfDataset({"lat", "lon"},
                   ("lat" :> Linspace(LfBbox.miny, LfBbox.maxy,
                                      Len(raw.coords["y"])))
                      @@ ("lon" :> Linspace(LfBbox.minx, LfBbox.maxx,
                                            Len(raw.coords["x"]))),
                   {"evt"})

\* lines 239-287
reproject_to_latlon(p, e) ==
    LET x == IF p.raw_dataset.is_none THEN create_dataset(p, e)
             ELSE LfOk(p, NoneDataset)
        ds == Reprojected(x.self.raw_dataset, e.rio)
    IN  IF x.raised THEN x
        ELSE LfOk([x.self EXCEPT !.processed_dataset = ds], ds)

\* lines 354-373: the aggregate of one group, a dataset without dimensions
\* that carries the bin labels as scalar coordinates
LfCellData(lat_bin, lon_bin) ==
    LfDataset({}, ("lat_bins" :> <<lat_bin>>) @@ ("lon_bins" :> <<lon_bin>>),
              {"evt"})

\* xr.merge of the result with one more cell
LfMerge(result, agg_data) ==
    LfDataset(result.dims,
              [k \in DOMAIN result.coords |->
                  SortedSeq(Range(result.coords[k])
                            \cup Range(agg_data.coords[k]))],
              result.data_vars \cup agg_data.data_vars)

\* lines 375-381
LfAddCell(result, agg_data) ==
    IF "lat_bins" \in result.dims /\ "lon_bins" \in result.dims
    THEN LfMerge(result, agg_data)
    ELSE agg_data

\* the two nested loops of lines 348-381 over the cells cells[i..]
RECURSIVE LfCellLoop(_, _, _)
LfCellLoop(cells, i, result) ==
    IF i > Len(cells) THEN result
    ELSE LfCellLoop(cells, i + 1,
                    LfAddCell(result, LfCellData(cells[i][1], cells[i][2])))

\* lines 320-350: the labels of the groups the two groupby_bins yield
LfCells(dataset, lat_bucket_size, lon_bucket_size) ==
    LET lat == dataset.coords["lat"]
        lon == dataset.coords["lon"]
        lat_bins == Arange(SeqMin(lat), SeqMax(lat) + lat_bucket_size,
                           lat_bucket_size)
        lon_bins == Arange(SeqMin(lon), SeqMax(lon) + lon_bucket_size,
                           lon_bucket_size)
        lat_groups == GroupBins(lat, lat_bins)
        lon_groups == GroupBins(lon, lon_bins)
    IN  [c \in 1..Len(lat_groups) * Len(lon_groups) |->
            <<lat_bins[lat_groups[((c - 1) \div Len(lon_groups)) + 1]]
                 + (lat_bucket_size \div 2),
              lon_bins[lon_groups[((c - 1) % Len(lon_groups)) + 1]]
                 + (lon_bucket_size \div 2)>>]

\* LandfireProcessor.bucket_spatial, lines 289-383
lf_bucket_spatial(p, e, lat_bucket_size, lon_bucket_size, agg_method) ==
    LET x == IF p.processed_dataset.is_none THEN reproject_to_latlon(p, e)
             ELSE LfOk(p, NoneDataset)
        dataset == x.self.processed_dataset
        cells == LfCells(dataset, lat_bucket_size, lon_bucket_size)
    IN  IF x.raised THEN x
        ELSE IF agg_method = "bogus" THEN LfRaise(x.self, "ValueError")
        ELSE IF "lat" \notin DOMAIN dataset.coords
        THEN LfRaise(x.self, "KeyError")
        ELSE IF cells # <<>> /\ agg_method \notin LfMethods
        THEN LfRaise(x.self, "ValueError")
        ELSE LfOk(x.self, LfCellLoop(cells, 1, EmptyLfDataset))

NoLfCall == [op |-> "none", lat_bucket_size |-> 0, lon_bucket_size |-> 0,
             agg_method |-> "mode"]

NoLfResult == [raised |-> FALSE, error |-> "None", value |-> NoneDataset]

LfOutcome(x) == [raised |-> x.raised, error |-> x.error, value |-> x.value]

InitLandfire ==
    /\ lf_self = NewProcessor
    /\ lf_call = NoLfCall
    /\ lf_result = NoLfResult

\* one call of a method without arguments
LfStage(op, x) ==
    /\ lf_call.op = "none"
    /\ lf_call' = [NoLfCall EXCEPT !.op = op]
    /\ lf_self' = x.self
    /\ lf_result' = LfOutcome(x)

LfDownload == \E e \in LfEnvironments : LfStage("download_data", download_data(lf_self, e))

\* processor.raw_data_path = zip_path, blackhills_datacube.py line 83
LfSetRawPath ==
    /\ lf_call.op = "none"
    /\ ~lf_self.raw_data_path
    /\ lf_self' = [lf_self EXCEPT !.raw_data_path = TRUE]
    /\ UNCHANGED <<lf_call, lf_result>>

LfExtract == \E e \in LfEnvironments : LfStage("extract_data", extract_data(lf_self, e))

LfCreate == \E e \in LfEnvironments : LfStage("create_dataset", create_dataset(lf_self, e))

LfReproject == \E e \in LfEnvironments : LfStage("reproject_to_latlon", reproject_to_latlon(lf_self, e))

LfBucket ==
    /\ lf_call.op = "none"
    /\ \E e \in LfEnvironments, b \in {<<2, 2>>, <<4, 2>>},
          m \in LfMethodChoices :
        LET x == lf_bucket_spatial(lf_self, e, b[1], b[2], m)
        IN  /\ lf_call' = [op |-> "bucket_spatial", lat_bucket_size |-> b[1],
                           lon_bucket_size |-> b[2], agg_method |-> m]
            /\ lf_self' = x.self
            /\ lf_result' = LfOutcome(x)

\* the caller drops the result
LfReturn ==
    /\ lf_call.op # "none"
    /\ lf_call' = NoLfCall
    /\ lf_result' = NoLfResult
    /\ UNCHANGED lf_self

NextLandfire ==
    \/ LfDownload
    \/ LfSetRawPath
    \/ LfExtract
    \/ LfCreate
    \/ LfReproject
    \/ LfBucket
    \/ LfReturn

(***************************************************************************)
(* scripts/blackhills_datacube.py                                          *)
(*                                                                         *)
(* One run of main: the LANDFIRE stage, the CMIP stage and the merge, each *)
(* with what its environment (files, downloads, libraries) does.           *)
(***************************************************************************)
VARIABLES
    bh_pc,             \* where main is
    bh_args,           \* --resolution and --temp-resolution
    bh_landfire_data,  \* what process_landfire_data returned
    bh_cmip_data,      \* what process_cmip_data returned
    bh_unified_cube,   \* what build_combined_datacube returned
    bh_exit            \* the exit code of the process, -1 while it runs

varsBlackHills ==
    <<bh_pc, bh_args, bh_landfire_data, bh_cmip_data, bh_unified_cube, bh_exit>>

BhArgChoices == [resolution : {2, 4}, temp_resolution : {"ME", "3ME"}]

\* lines 59-107
process_landfire_data(resolution, zip_exists, e) ==
    LET p0 == NewProcessor
        d  == IF zip_exists
              THEN LfOk([p0 EXCEPT !.raw_data_path = TRUE], NoneDataset)
              ELSE download_data(p0, e)
        x  == extract_data(d.self, e)
        c  == create_dataset(x.self, e)
        b  == lf_bucket_spatial(c.self, e, resolution, resolution, "mode")
    IN  IF d.raised THEN LfRaise(d.self, "FileNotFoundError")
        ELSE IF x.raised THEN x
        ELSE IF c.raised THEN c
        ELSE b

\* lines 168-177: processor.dataset.isel with strides 10, 10 and 3 or 1
Simplified(ds, temporal_resolution) ==
    [ds EXCEPT !.lat = StrideTime(ds.lat, 10),
               !.lon = StrideTime(ds.lon, 10),
               !.time = StrideTime(ds.time,
                           IF temporal_resolution = "3ME" THEN 3 ELSE 1)]

\* lines 154-179 for one file; fails tells that process_to_datacube raised
ProcessFile(ds, a, fails) ==
    IF fails THEN Simplified(ds, a.temp_resolution)
    ELSE process_to_datacube(ds,
             [op |-> "process_to_datacube",
              lat_bucket_size |-> a.resolution,
              lon_bucket_size |-> a.resolution,
              time_bucket_size |-> a.temp_resolution,
              spatial_agg_method |-> "mean", temporal_agg_method |-> "mean",
              variables |-> <<>>])

\* lines 109-195; files holds, per expected file, its dataset or
\* EmptyDataset when the file does not exist
process_cmip_data(files, a, fails) ==
    LET found == {i \in 1..Len(files) : files[i] # EmptyDataset}
    IN  IF found = {}
        THEN [raised |-> TRUE, error |-> "FileNotFoundError",
              ds |-> EmptyDataset]
        ELSE [raised |-> FALSE, error |-> "None",
              ds |-> ProcessFile(files[CHOOSE i \in found :
                                          \A j \in found : i <= j],
                                 a, fails)]

\* a processed CMIP dataset as the builder sees it: coordinates by name
CmipCoords(ds) ==
    LET names == {k \in {"lat", "lon", "time", "lat_bins", "lon_bins"} :
                     ds[k] # <<>>}
    IN  [k \in names |-> ds[k]]

\* lines 197-237
build_combined_datacube(landfire_data, cmip_data, a, cftime, interp) ==
    LET datasets == << [name |-> "vegetation",
                       dataset |-> BuilderDataset(landfire_data.coords,
                                                  landfire_data.data_vars)],
                      [name |-> "climate",
                       dataset |-> BuilderDataset(CmipCoords(cmip_data),
                                                  cmip_data.data_vars)] >>
    IN  build_datacube(datasets,
            [op |-> "build_datacube",
             lat_resolution |-> a.resolution,
             lon_resolution |-> a.resolution,
             time_resolution |-> a.temp_resolution,
             bounds |-> [lat |-> NoBound, lon |-> NoBound, time |-> NoBound],
             cftime |-> cftime, interp |-> interp])

\* the files process_cmip_data may find: none, the first, the second, both
BhFileChoices ==
    {<<EmptyDataset, EmptyDataset>>}
       \cup {<<d, EmptyDataset>> : d \in InputDatasets}
       \cup {<<EmptyDataset, d>> : d \in InputDatasets}

InitBlackHills ==
    /\ bh_pc = "start"
    /\ bh_args = [resolution |-> 0, temp_resolution |-> "None"]
    /\ bh_landfire_data = NoneDataset
    /\ bh_cmip_data = EmptyDataset
    /\ bh_unified_cube = NoDatacube
    /\ bh_exit = -1

\* lines 239-251
BhParseArguments ==
    /\ bh_pc = "start"
    /\ bh_args' \in BhArgChoices
    /\ bh_pc' = "landfire"
    /\ UNCHANGED <<bh_landfire_data, bh_cmip_data, bh_unified_cube, bh_exit>>

\* lines 274-280
BhFail ==
    /\ bh_pc' = "exited"
    /\ bh_exit' = 1

\* lines 254-255
BhProcessLandfire ==
    /\ bh_pc = "landfire"
    /\ \E zip_exists \in BOOLEAN, e \in LfEnvironments :
        LET r == process_landfire_data(bh_args.resolution, zip_exists, e)
        IN  IF r.raised
            THEN BhFail /\ UNCHANGED bh_landfire_data
            ELSE /\ bh_landfire_data' = r.value
                 /\ bh_pc' = "cmip"
                 /\ UNCHANGED bh_exit
    /\ UNCHANGED <<bh_args, bh_cmip_data, bh_unified_cube>>

\* lines 257-258
BhProcessCmip ==
    /\ bh_pc = "cmip"
    /\ \E files \in BhFileChoices, fails \in BOOLEAN :
        LET r == process_cmip_data(files, bh_args, fails)
        IN  IF r.raised
            THEN BhFail /\ UNCHANGED bh_cmip_data
            ELSE /\ bh_cmip_data' = r.ds
                 /\ bh_pc' = "build"
                 /\ UNCHANGED bh_exit
    /\ UNCHANGED <<bh_args, bh_landfire_data, bh_unified_cube>>

\* lines 260-272
BhBuild ==
    /\ bh_pc = "build"
    /\ \E cftime \in BOOLEAN, interp \in InterpOutcomes :
        LET r == build_combined_datacube(bh_landfire_data, bh_cmip_data,
                                         bh_args, cftime, interp)
        IN  IF r.raised
            THEN BhFail /\ UNCHANGED bh_unified_cube
            ELSE /\ bh_unified_cube' = r.cube
                 /\ bh_pc' = "exited"
                 /\ bh_exit' = 0
    /\ UNCHANGED <<bh_args, bh_landfire_data, bh_cmip_data>>

NextBlackHills ==
    \/ BhParseArguments
    \/ BhProcessLandfire
    \/ BhProcessCmip
    \/ BhBuild

(***************************************************************************)
(* The main functions of maca_seasonal_batch.py, osm_data_gatherer.py and  *)
(* osm_to_geojson.py and the exit codes their processes end with           *)
(***************************************************************************)
VARIABLES
    m_pc,         \* position of the script process
    m_script,     \* the script that was started
    m_mode,       \* the mode its command line selects
    m_setup_ok,   \* the set-up before the first sub-task succeeded
    m_total,      \* sub-tasks of the run
    m_results,    \* how the sub-tasks ended, in order
    m_exit        \* exit code of the process

varsScripts == <<m_pc, m_script, m_mode, m_setup_ok, m_total, m_results,
                 m_exit>>

\* exports of a batch run that are followed
MaxExports == 2

\* JSON files of an input directory
MaxFiles == 2

\* the process has not ended
NoExit == -1

\* how one sub-task of a script can end
SubTaskOutcomes(script) ==
    CASE script = "maca"      -> {"queued", "no_data", "raised"}
      [] script = "gatherer"  -> {"saved", "None", "raised"}
      [] script = "converter" -> {"converted", "failed"}

\* the failures no handler catches before the top of the process:
\* _start_export has no try block (maca_seasonal_batch.py lines 129-181) and
\* the single data-type call of osm_data_gatherer.main has none (line 391)
Propagates(script, mode, o) ==
    \/ script = "maca" /\ o = "raised"
    \/ script = "gatherer" /\ mode = "single" /\ o = "raised"

\* osm_data_gatherer.py line 399, osm_to_geojson.py line 335
successful(r) == Cardinality({ i \in DOMAIN r : r[i] \in {"saved", "converted"} })

\* osm_data_gatherer.py line 412
GathererExitZero(r) == 0

GathererExit(r) == IF successful(r) > 0 THEN 0 ELSE 1

\* osm_to_geojson.py lines 329-353: every failure of convert_directory's
\* files is caught in its loop, that of convert_file reaches main's handler
ConverterExit(mode, r) ==
    IF mode = "file" /\ r = <<"failed">> THEN 1 ELSE 0

\* the value main returns to sys.exit after the last sub-task
ExitCode(script, mode, r) ==
    CASE script = "maca"      -> 0
      [] script = "gatherer"  -> GathererExit(r)
      [] script = "converter" -> ConverterExit(mode, r)

InitScripts ==
    /\ m_pc = "idle"
    /\ m_script = "none"
    /\ m_mode = "none"
    /\ m_setup_ok = FALSE
    /\ m_total = 0
    /\ m_results = <<>>
    /\ m_exit = NoExit

\* the process ends before any sub-task
EndsAtOnce(ok, code) ==
    /\ m_setup_ok' = ok
    /\ m_exit' = code
    /\ m_total' = 0
    /\ m_pc' = "exited"

\* the process goes on to n sub-tasks
Proceeds(n) ==
    /\ m_setup_ok' = TRUE
    /\ m_exit' = NoExit
    /\ m_total' = n
    /\ m_pc' = "running"

\* maca_seasonal_batch.main, lines 248-286, with init_ee, lines 78-88
MacaMain ==
    /\ m_pc \in {"idle", "exited"}
    /\ m_script' = "maca"
    /\ m_results' = <<>>
    /\ \E mode \in {"batch", "dry_run", "status", "dry_status"},
          ee_ok \in BOOLEAN :
        /\ m_mode' = mode
        /\ IF mode \in {"dry_run", "dry_status"}
           THEN EndsAtOnce(TRUE, 0)
           ELSE IF ~ee_ok
           THEN EndsAtOnce(FALSE, 1)
           ELSE IF mode = "status"
           THEN EndsAtOnce(TRUE, 0)
           ELSE \E n \in 1..MaxExports : Proceeds(n)

\* osm_data_gatherer.main, lines 367-395: the gatherer is built, then all
\* data types or the chosen one are gathered
GathererMain ==
    /\ m_pc \in {"idle", "exited"}
    /\ m_script' = "gatherer"
    /\ m_results' = <<>>
    /\ \E mode \in {"all", "single"}, built \in BOOLEAN :
        /\ m_mode' = mode
        /\ IF ~built
           THEN EndsAtOnce(FALSE, 1)
           ELSE Proceeds(IF mode = "all" THEN Len(data_types) ELSE 1)

\* osm_to_geojson.main, lines 318-347, with the checks of convert_directory,
\* lines 270-288
ConverterMain ==
    /\ m_pc \in {"idle", "exited"}
    /\ m_script' = "converter"
    /\ m_results' = <<>>
    /\ \E mode \in {"directory", "file"}, input_exists \in BOOLEAN :
        /\ m_mode' = mode
        /\ IF mode = "directory"
           THEN IF input_exists
                THEN \E n \in 0..MaxFiles : Proceeds(n)
                ELSE EndsAtOnce(FALSE, 1)
           ELSE Proceeds(1)

\* one sub-task ends: an export of _process_scenario, a gather function, a
\* convert_file call
SubTask ==
    /\ m_pc = "running"
    /\ Len(m_results) < m_total
    /\ \E o \in SubTaskOutcomes(m_script) :
        /\ m_results' = Append(m_results, o)
        /\ IF Propagates(m_script, m_mode, o)
           THEN m_pc' = "exited" /\ m_exit' = 1
           ELSE UNCHANGED <<m_pc, m_exit>>
    /\ UNCHANGED <<m_script, m_mode, m_setup_ok, m_total>>

\* main returns and sys.exit ends the process with its value
MainReturn ==
    /\ m_pc = "running"
    /\ Len(m_results) = m_total
    /\ m_exit' = ExitCode(m_script, m_mode, m_results)
    /\ m_pc' = "exited"
    /\ UNCHANGED <<m_script, m_mode, m_setup_ok, m_total, m_results>>

NextScripts ==
    \/ MacaMain
    \/ GathererMain
    \/ ConverterMain
    \/ SubTask
    \/ MainReturn

(***************************************************************************)
(* cmip/download/gee_fetcher.py                                            *)
(***************************************************************************)
VARIABLES
    fx_files,      \* names of the files in data_dir
    fx_attempts,   \* history: download attempts that reached the remote service
    fx_writes,     \* history: files written by the export
    fx_ncalls,     \* history: calls of download_subset
    fx_call,       \* arguments of the last call
    fx_result      \* what the last call returned

varsFetcher == <<fx_files, fx_attempts, fx_writes, fx_ncalls, fx_call,
                 fx_result>>

\* calls of download_subset that are followed
MaxFetches == 3

\* the requests the calls are made with
FetchVariables == {"tasmax", "pr"}

FetchYears == {<<2006, 2008>>, <<2009, 2011>>}

\* lines 90-94: the name of the target file
SubsetFilename(variable, model, scenario, year_start, year_end) ==
    "maca_gee_" \o variable \o "_" \o model \o "_" \o scenario \o "_"
        \o ToString(year_start) \o "_" \o ToString(year_end) \o "_subset.nc"

\* line 96: the download is skipped
SkipsDownloadIgnoringForce(exists, force) == exists

SkipsDownload(exists, force) == exists /\ ~force

\* lines 100-166: what the remote service and the export can do: the
\* collection is empty, a call raises, the export writes the file, or the
\* export ends without a file and without raising
RemoteOutcomes == {"empty", "raises", "written", "not_written"}

NoFetchCall == [filename |-> "", force |-> FALSE, existed |-> FALSE]

InitFetcher ==
    /\ fx_files = {}
    /\ fx_attempts = 0
    /\ fx_writes = 0
    /\ fx_ncalls = 0
    /\ fx_call = NoFetchCall
    /\ fx_result = "pending"

\* download_subset, lines 64-166
download_subset ==
    /\ fx_ncalls < MaxFetches
    /\ fx_ncalls' = fx_ncalls + 1
    /\ \E variable \in FetchVariables, years \in FetchYears,
          force \in BOOLEAN, remote \in RemoteOutcomes :
        LET output_path == SubsetFilename(variable, "CCSM4", "rcp45",
                                          years[1], years[2])
            exists == output_path \in fx_files
        IN  /\ fx_call' = [filename |-> output_path, force |-> force,
                           existed |-> exists]
            /\ IF SkipsDownload(exists, force)
               THEN /\ fx_result' = output_path
                    /\ UNCHANGED <<fx_files, fx_attempts, fx_writes>>
               ELSE /\ fx_attempts' = fx_attempts + 1
                    /\ IF remote = "written"
                       THEN /\ fx_files' = fx_files \cup {output_path}
                            /\ fx_writes' = fx_writes + 1
                            /\ fx_result' = output_path
                       ELSE /\ UNCHANGED <<fx_files, fx_writes>>
                            /\ fx_result' = IF remote = "not_written"
                                            THEN output_path ELSE "None"

\* a file of data_dir is removed from outside
FileRemoved ==
    /\ \E f \in fx_files : fx_files' = fx_files \ {f}
    /\ UNCHANGED <<fx_attempts, fx_writes, fx_ncalls, fx_call, fx_result>>

NextFetcher ==
    \/ download_subset
    \/ FileRemoved

(***************************************************************************)
(* scripts/landfire_processor.py: the bounding-box string of the           *)
(* constructor.  A string is a sequence of one-character strings, a        *)
(* number is held in hundredths.                                           *)
(***************************************************************************)
VARIABLES
    bb_tokens,   \* history: the tokens the bbox string was written with
    bb_bbox,     \* self.bbox
    bb_self      \* the outcome of _parse_bbox: minx, miny, maxx, maxy

varsBbox == <<bb_tokens, bb_bbox, bb_self>>

\* most tokens of a bounding-box string
MaxTokens == 5

Token(text, numeric, value) ==
    [text |-> text, numeric |-> numeric, value |-> value]

\* the tokens the strings are written with, and the number float() gives
TokenPool ==
    { Token(<<"7">>, TRUE, 700),
      Token(<<"-", "1", "0", ".", "5">>, TRUE, -1050),
      Token(<<".", "2", "5">>, TRUE, 25),
      Token(<<"4", ".">>, TRUE, 400),
      Token(<<"1", ".", "2", ".", "3">>, FALSE, 0),
      Token(<<"-">>, FALSE, 0) }

\* the whitespace between two tokens and around the string
Separators == { <<" ">>, <<"\t", " ">> }

Margins == { <<>>, <<" ">> }

Whitespace == {" ", "\t", "\n"}

RECURSIVE JoinTokens(_, _)
JoinTokens(toks, sep) ==
    IF toks = <<>> THEN <<>>
    ELSE IF Len(toks) = 1 THEN toks[1].text
    ELSE toks[1].text \o sep \o JoinTokens(Tail(toks), sep)

RECURSIVE SplitFrom(_, _, _)
\* str.split() without arguments: runs of whitespace separate the parts,
\* whitespace at the ends gives no empty part
SplitFrom(s, i, cur) ==
    IF i > Len(s)
    THEN IF cur = <<>> THEN <<>> ELSE <<cur>>
    ELSE IF s[i] \in Whitespace
    THEN IF cur = <<>> THEN SplitFrom(s, i + 1, <<>>)
                       ELSE <<cur>> \o SplitFrom(s, i + 1, <<>>)
    ELSE SplitFrom(s, i + 1, Append(cur, s[i]))

Split(s) == SplitFrom(s, 1, <<>>)

DigitValue(c) ==
    CASE c = "0" -> 0 [] c = "1" -> 1 [] c = "2" -> 2 [] c = "3" -> 3
      [] c = "4" -> 4 [] c = "5" -> 5 [] c = "6" -> 6 [] c = "7" -> 7
      [] c = "8" -> 8 [] c = "9" -> 9 [] OTHER -> -1

RECURSIVE DigitsValue(_)
DigitsValue(ds) ==
    IF ds = <<>> THEN 0
    ELSE 10 * DigitsValue(SubSeq(ds, 1, Len(ds) - 1))
            + DigitValue(ds[Len(ds)])

\* float() on a part: an optional sign, digits with at most one point and
\* at least one digit; anything else raises ValueError
FloatValid(part) ==
    LET body == IF part # <<>> /\ part[1] \in {"-", "+"}
                THEN Tail(part) ELSE part
        dots == { i \in DOMAIN body : body[i] = "." }
    IN  /\ Cardinality(dots) <= 1
        /\ \A i \in DOMAIN body : body[i] = "." \/ DigitValue(body[i]) >= 0
        /\ \E i \in DOMAIN body : DigitValue(body[i]) >= 0

\* the value of a valid part, in hundredths, for up to two decimals
Float(part) ==
    LET neg  == part[1] = "-"
        body == IF part[1] \in {"-", "+"} THEN Tail(part) ELSE part
        dots == { i \in DOMAIN body : body[i] = "." }
        dot  == IF dots = {} THEN Len(body) + 1 ELSE CHOOSE i \in dots : TRUE
        int  == SubSeq(body, 1, dot - 1)
        frac == SubSeq(body, dot + 1, Len(body))
        hundredths == CASE Len(frac) = 0 -> 0
                        [] Len(frac) = 1 -> 10 * DigitsValue(frac)
                        [] OTHER -> DigitsValue(SubSeq(frac, 1, 2))
        v    == 100 * DigitsValue(int) + hundredths
    IN  IF neg THEN 0 - v ELSE v

BboxRaised == [raised |-> TRUE, minx |-> 0, miny |-> 0, maxx |-> 0,
               maxy |-> 0]

BboxSet(minx, miny, maxx, maxy) ==
    [raised |-> FALSE, minx |-> minx, miny |-> miny, maxx |-> maxx,
     maxy |-> maxy]

\* lines 101-110
_parse_bbox_swapped(bbox) ==
    LET parts == Split(bbox) IN
    IF Len(parts) # 4 THEN BboxRaised
    ELSE IF \E i \in 1..4 : ~FloatValid(parts[i]) THEN BboxRaised
    ELSE BboxSet(Float(parts[1]), Float(parts[3]), Float(parts[2]),
                 Float(parts[4]))

_parse_bbox(bbox) ==
    LET parts == Split(bbox) IN
    IF Len(parts) # 4 THEN BboxRaised
    ELSE IF \E i \in 1..4 : ~FloatValid(parts[i]) THEN BboxRaised
    ELSE BboxSet(Float(parts[1]), Float(parts[2]), Float(parts[3]),
                 Float(parts[4]))

InitBbox ==
    /\ bb_tokens = <<>>
    /\ bb_bbox = <<>>
    /\ bb_self = BboxRaised

\* LandfireProcessor(bbox), lines 70-80: the string is stored and parsed,
\* once for a processor
LfConstruct ==
    /\ bb_bbox = <<>>
    /\ \E n \in 0..MaxTokens :
      \E toks \in [1..n -> TokenPool], sep \in Separators,
         lead \in Margins, trail \in Margins :
        /\ bb_tokens' = toks
        /\ bb_bbox' = lead \o JoinTokens(toks, sep) \o trail
        /\ bb_self' = _parse_bbox(bb_bbox')

NextBbox ==
    \/ LfConstruct

(***************************************************************************)
(* scripts/cmip_processor.py, lines 225-230: the reduction of one group of *)
(* cells to an output cell.  Values are float32 numbers of the binade      *)
(* [2^23, 2^24), held as their integer value; NaN marks a missing value.   *)
(***************************************************************************)
VARIABLES
    ag_group,   \* the values of the cells of one (lat bin, lon bin) group
    ag_mean,    \* lon_group.mean(dim=[lat_dim, lon_dim]) of the group
    ag_max,     \* lon_group.max(dim=[lat_dim, lon_dim]) of the group
    ag_done     \* the two reductions have been computed for the group

varsAgg == <<ag_group, ag_mean, ag_max, ag_done>>

\* most cells of a group
MaxGroup == 4

\* bits of the significand of a float32
MantissaBits == 24

NaN == -1

\* the values the cells hold
CellValues == {NaN, 8388608, 14928514, 14928515, 16777215}

Pow2(n) == 2 ^ n

\* the spacing of the float32 numbers at the positive rational num / den
UlpOf(num, den) ==
    LET js == { j \in 0..6 : num \div den >= Pow2(j + MantissaBits - 1) }
    IN  IF js = {} THEN 1
        ELSE Pow2(CHOOSE j \in js : \A k \in js : k <= j)

\* num / den rounded to the nearest float32, ties to the even significand
RoundToFloat(num, den) ==
    LET u == UlpOf(num, den)
        q == num \div (den * u)
        r == num - q * den * u
        up == \/ 2 * r > den * u
              \/ 2 * r = den * u /\ q % 2 = 1
    IN  IF num = 0 THEN 0 ELSE (IF up THEN q + 1 ELSE q) * u

\* the non-missing values, in the order of the group
RECURSIVE Valid(_)
Valid(g) ==
    IF g = <<>> THEN <<>>
    ELSE IF g[1] = NaN THEN Valid(Tail(g))
    ELSE <<g[1]>> \o Valid(Tail(g))

\* the running float32 sum of numpy's add.reduce over the values
RECURSIVE FloatSum(_)
FloatSum(g) ==
    IF g = <<>> THEN 0
    ELSE RoundToFloat(FloatSum(SubSeq(g, 1, Len(g) - 1)) + g[Len(g)], 1)

\* line 226: mean with skipna, NaN for a group without a value
cell_mean(g) ==
    LET v == Valid(g) IN
    IF v = <<>> THEN NaN ELSE RoundToFloat(FloatSum(v), Len(v))

\* line 230: max with skipna, NaN for a group without a value
cell_max_first(g) ==
    LET v == Valid(g) IN
    IF v = <<>> THEN NaN ELSE v[1]

cell_max(g) ==
    LET v == Valid(g) IN
    IF v = <<>> THEN NaN
    ELSE CHOOSE x \in Range(v) : \A y \in Range(v) : x >= y

InitAgg ==
    /\ ag_group = <<>>
    /\ ag_mean = NaN
    /\ ag_max = NaN
    /\ ag_done = FALSE

\* groupby_bins puts one more cell into the group, lines 215-222
GroupCell ==
    /\ ~ag_done
    /\ Len(ag_group) < MaxGroup
    /\ \E v \in CellValues : ag_group' = Append(ag_group, v)
    /\ UNCHANGED <<ag_mean, ag_max, ag_done>>

\* the group is reduced with MEAN and with MAX, lines 225-230
AggregateCell ==
    /\ ~ag_done
    /\ ag_group # <<>>
    /\ ag_mean' = cell_mean(ag_group)
    /\ ag_max' = cell_max(ag_group)
    /\ ag_done' = TRUE
    /\ UNCHANGED ag_group

NextAgg ==
    \/ GroupCell
    \/ AggregateCell

(***************************************************************************)
(* scripts/datacube_builder.py, lines 401-469: the nearest neighbour       *)
(* fallback for one target grid point                                      *)
(***************************************************************************)
VARIABLES
    nn_source_lats,   \* regridded.lat.values
    nn_source_lons,   \* regridded.lon.values
    nn_target,        \* <<target_lat, target_lon>> of the grid point
    nn_nearest        \* <<nearest_lat_idx, nearest_lon_idx>>, 0 before the call

varsNearest == <<nn_source_lats, nn_source_lons, nn_target, nn_nearest>>

\* longest coordinate axis of a source grid
MaxAxisLen == 2

\* coordinate values of the source axes, in any order and with repeats
AxisValues == {0, 4, 5, 10}

SourceAxes == UNION { [1..n -> AxisValues] : n \in 1..MaxAxisLen }

TargetCoordinates == {-3, 2, 5, 7, 9, 25}

InitNearest ==
    /\ nn_source_lats = <<>>
    /\ nn_source_lons = <<>>
    /\ nn_target = <<0, 0>>
    /\ nn_nearest = <<0, 0>>

\* lines 419-426 and 453-459: the source cell copied to one target point
NearestCell ==
    /\ nn_nearest = <<0, 0>>
    /\ \E source_lats \in SourceAxes, source_lons \in SourceAxes,
          target_lat \in TargetCoordinates, target_lon \in TargetCoordinates :
        /\ nn_source_lats' = source_lats
        /\ nn_source_lons' = source_lons
        /\ nn_target' = <<target_lat, target_lon>>
        /\ nn_nearest' = <<NearestIndex(source_lats, target_lat),
                           NearestIndex(source_lons, target_lon)>>

NextNearest ==
    \/ NearestCell

(***************************************************************************)
(* maca_seasonal_batch.py, lines 40-62 and 124-126: the identifiers of two *)
(* export tasks of the enumeration                                         *)
(***************************************************************************)
VARIABLES
    tk_tasks,   \* the two (var, model, scen, yr0, yr1, season) combinations
    tk_ids,     \* their _task_id strings
    tk_counts   \* <<combinations of the full enumeration, distinct ids>>

varsTaskId == <<tk_tasks, tk_ids, tk_counts>>

\* lines 41-42
ALL_VARIABLES ==
    <<"tasmax", "tasmin", "pr", "rhsmax", "rhsmin", "huss", "was", "rsds">>

\* lines 44-49
ALL_MODELS ==
    <<"GFDL-ESM2M", "MIROC5", "CCSM4", "CanESM2", "CNRM-CM5", "GFDL-ESM2G",
      "HadGEM2-CC365", "HadGEM2-ES365", "inmcm4", "IPSL-CM5A-LR",
      "IPSL-CM5A-MR", "IPSL-CM5B-LR", "MIROC-ESM", "MIROC-ESM-CHEM",
      "MRI-CGCM3", "NorESM1-M", "bcc-csm1-1", "bcc-csm1-1-m", "BNU-ESM",
      "CSIRO-Mk3-6-0">>

\* lines 187-188: the periods _process_scenario enumerates for a scenario
EnumeratedPeriods(scen) ==
    LET info == SCENARIOS[scen]
    IN  { <<y, Min2(y + 2, info.end)>> :
            y \in {x \in info.start..info.end : (x - info.start) % 3 = 0} }

\* periods taken from each end of a scenario's enumeration
MaxPeriods == 1

\* the first and the last MaxPeriods periods of a scenario
SampledPeriods(scen) ==
    LET info == SCENARIOS[scen]
    IN  { p \in EnumeratedPeriods(scen) :
            \/ p[1] < info.start + 3 * MaxPeriods
            \/ p[1] > info.end - 3 * MaxPeriods }

\* variables and models of the lists whose names are closest to one another:
\* subsequences of ALL_VARIABLES and ALL_MODELS
SampledVariables ==
    <<"tasmax", "tasmin", "pr">>

SampledModels ==
    <<"bcc-csm1-1", "bcc-csm1-1-m", "MIROC-ESM", "MIROC-ESM-CHEM">>

\* lines 217-219 and 187-189: the combinations the loops enumerate for
\* lists of variables and models and the periods of the scenarios
EnumeratedTasks(variable_list, model_list, periods_of) ==
    UNION { { <<v, m, s, p[1], p[2], k>> :
                v \in Range(variable_list), m \in Range(model_list),
                p \in periods_of[s], k \in Range(SEASONS) } :
            s \in DOMAIN SCENARIOS }

Tasks ==
    EnumeratedTasks(SampledVariables, SampledModels,
                    [s \in DOMAIN SCENARIOS |-> SampledPeriods(s)])

NoTasks == <<>>

InitTaskId ==
    /\ tk_tasks = NoTasks
    /\ tk_ids = <<>>
    /\ tk_counts = <<0, 0>>

\* line 130 for two combinations of the loops of lines 217-219 and 187-189
TaskIds ==
    /\ tk_tasks = NoTasks
    /\ tk_counts' =
          LET all == EnumeratedTasks(ALL_VARIABLES, ALL_MODELS,
                         [s \in DOMAIN SCENARIOS |-> EnumeratedPeriods(s)])
          IN  <<Cardinality(all),
                Cardinality({ _task_id(t[1], t[2], t[3], t[4], t[5], t[6]) :
                                t \in all })>>
    /\ \E a \in Tasks, b \in Tasks :
        /\ tk_tasks' = <<a, b>>
        /\ tk_ids' = <<_task_id(a[1], a[2], a[3], a[4], a[5], a[6]),
                       _task_id(b[1], b[2], b[3], b[4], b[5], b[6])>>

NextTaskId ==
    \/ TaskIds

(***************************************************************************)
(* maca_seasonal_batch.py, lines 184-193: the loops of _process_scenario   *)
(* with the periods they have gone through                                 *)
(***************************************************************************)
VARIABLES
    ps_pc,        \* "idle", "loop" inside the loops, "returned"
    ps_scen,      \* the scen argument
    ps_y0,        \* y0 of the iteration the loops are at
    ps_sk,        \* index in SEASONS of the iteration the loops are at
    ps_periods    \* the <<y0, y1>> of the iterations of the outer loop so far

varsScenario == <<ps_pc, ps_scen, ps_y0, ps_sk, ps_periods>>

\* line 188
period_end_uncapped(yr0, end) == yr0 + 2

period_end(yr0, end) == Min2(yr0 + 2, end)

InitScenario ==
    /\ ps_pc = "idle"
    /\ ps_scen = ""
    /\ ps_y0 = 0
    /\ ps_sk = 0
    /\ ps_periods = <<>>

\* lines 185-189: the call and the first iteration of both loops
ProcessScenario ==
    /\ ps_pc = "idle"
    /\ \E scen \in DOMAIN SCENARIOS :
        LET info == SCENARIOS[scen]
        IN  /\ ps_scen' = scen
            /\ IF info.start < info.end + 1
               THEN /\ ps_pc' = "loop"
                    /\ ps_y0' = info.start
                    /\ ps_sk' = 1
                    /\ ps_periods' =
                          << <<info.start, period_end(info.start, info.end)>> >>
               ELSE /\ ps_pc' = "returned"
                    /\ UNCHANGED <<ps_y0, ps_sk, ps_periods>>

\* line 189: the next season of the same period
NextSeason ==
    /\ ps_pc = "loop"
    /\ ps_sk < Len(SEASONS)
    /\ ps_sk' = ps_sk + 1
    /\ UNCHANGED <<ps_pc, ps_scen, ps_y0, ps_periods>>

\* lines 187-188: range(start, end + 1, 3) gives the next y0
NextPeriod ==
    /\ ps_pc = "loop"
    /\ ps_sk = Len(SEASONS)
    /\ ps_y0 + 3 < SCENARIOS[ps_scen].end + 1
    /\ ps_y0' = ps_y0 + 3
    /\ ps_sk' = 1
    /\ ps_periods' = Append(ps_periods,
                        <<ps_y0 + 3,
                          period_end(ps_y0 + 3, SCENARIOS[ps_scen].end)>>)
    /\ UNCHANGED <<ps_pc, ps_scen>>

\* line 193: the range is exhausted
ScenarioReturns ==
    /\ ps_pc = "loop"
    /\ ps_sk = Len(SEASONS)
    /\ ~(ps_y0 + 3 < SCENARIOS[ps_scen].end + 1)
    /\ ps_pc' = "returned"
    /\ UNCHANGED <<ps_scen, ps_y0, ps_sk, ps_periods>>

NextScenario ==
    \/ ProcessScenario
    \/ NextSeason
    \/ NextPeriod
    \/ ScenarioReturns

(***************************************************************************)
(* scripts/cmip_processor.py, lines 195-223, and                           *)
(* scripts/landfire_processor.py, lines 320-353: the groups of source      *)
(* cells the two groupby_bins loops of spatial bucketing go through        *)
(***************************************************************************)
VARIABLES
    gb_lat,      \* dataset.lat.values
    gb_lon,      \* dataset.lon.values
    gb_size,     \* <<lat_bucket_size, lon_bucket_size>>
    gb_groups    \* the groups: bin indexes and the <<lat, lon>> positions in it

varsGroups == <<gb_lat, gb_lon, gb_size, gb_groups>>

\* longest coordinate axis of a grouped dataset
MaxCells == 4

\* evenly spaced ascending axes of at least two coordinates
GroupAxes ==
    { [i \in 1..n |-> a0 + (i - 1) * step] :
        a0 \in {0, 40}, step \in {1, 2, 3}, n \in 2..MaxCells }

InitGroups ==
    /\ gb_lat = <<>>
    /\ gb_lon = <<>>
    /\ gb_size = <<0, 0>>
    /\ gb_groups = {}

\* the groups of the nested loops: one for every latitude bin and every
\* longitude bin that hold a coordinate of the dataset
BinGroups(lat, lon, lat_bucket_size, lon_bucket_size) ==
    LET lat_bins == Arange(SeqMin(lat), SeqMax(lat) + lat_bucket_size,
                           lat_bucket_size)
        lon_bins == Arange(SeqMin(lon), SeqMax(lon) + lon_bucket_size,
                           lon_bucket_size)
    IN  { [lat_bin |-> i, lon_bin |-> j,
           cells |-> BinMembers(lat, lat_bins, i)
                        \X BinMembers(lon, lon_bins, j)] :
            i \in Range(GroupBins(lat, lat_bins)),
            j \in Range(GroupBins(lon, lon_bins)) }

\* one call of bucket_spatial up to the aggregation of the groups
GroupCells ==
    /\ gb_lat = <<>>
    /\ \E lat \in GroupAxes, lon \in GroupAxes,
          lat_bucket_size \in BucketSizes, lon_bucket_size \in BucketSizes :
        /\ gb_lat' = lat
        /\ gb_lon' = lon
        /\ gb_size' = <<lat_bucket_size, lon_bucket_size>>
        /\ gb_groups' = BinGroups(lat, lon, lat_bucket_size, lon_bucket_size)

NextGroups ==
    \/ GroupCells

vars ==
    <<varsBatch,
      varsGather,
      varsConvert,
      varsCmip,
      varsBuilder,
      varsLandfire,
      varsBlackHills,
      varsScripts,
      varsFetcher,
      varsBbox,
      varsAgg,
      varsNearest,
      varsTaskId,
      varsScenario,
      varsGroups>>

Init ==
    /\ InitBatch
    /\ InitGather
    /\ InitConvert
    /\ InitCmip
    /\ InitBuilder
    /\ InitLandfire
    /\ InitBlackHills
    /\ InitScripts
    /\ InitFetcher
    /\ InitBbox
    /\ InitAgg
    /\ InitNearest
    /\ InitTaskId
    /\ InitScenario
    /\ InitGroups

OthersOfBatch ==
    <<varsGather, varsConvert, varsCmip, varsBuilder,
      varsLandfire, varsBlackHills, varsScripts, varsFetcher,
      varsBbox, varsAgg, varsNearest, varsTaskId,
      varsScenario, varsGroups>>

OthersOfGather ==
    <<varsBatch, varsConvert, varsCmip, varsBuilder,
      varsLandfire, varsBlackHills, varsScripts, varsFetcher,
      varsBbox, varsAgg, varsNearest, varsTaskId,
      varsScenario, varsGroups>>

OthersOfConvert ==
    <<varsBatch, varsGather, varsCmip, varsBuilder,
      varsLandfire, varsBlackHills, varsScripts, varsFetcher,
      varsBbox, varsAgg, varsNearest, varsTaskId,
      varsScenario, varsGroups>>

OthersOfCmip ==
    <<varsBatch, varsGather, varsConvert, varsBuilder,
      varsLandfire, varsBlackHills, varsScripts, varsFetcher,
      varsBbox, varsAgg, varsNearest, varsTaskId,
      varsScenario, varsGroups>>

OthersOfBuilder ==
    <<varsBatch, varsGather, varsConvert, varsCmip,
      varsLandfire, varsBlackHills, varsScripts, varsFetcher,
      varsBbox, varsAgg, varsNearest, varsTaskId,
      varsScenario, varsGroups>>

OthersOfLandfire ==
    <<varsBatch, varsGather, varsConvert, varsCmip,
      varsBuilder, varsBlackHills, varsScripts, varsFetcher,
      varsBbox, varsAgg, varsNearest, varsTaskId,
      varsScenario, varsGroups>>

OthersOfBlackHills ==
    <<varsBatch, varsGather, varsConvert, varsCmip,
      varsBuilder, varsLandfire, varsScripts, varsFetcher,
      varsBbox, varsAgg, varsNearest, varsTaskId,
      varsScenario, varsGroups>>

OthersOfScripts ==
    <<varsBatch, varsGather, varsConvert, varsCmip,
      varsBuilder, varsLandfire, varsBlackHills, varsFetcher,
      varsBbox, varsAgg, varsNearest, varsTaskId,
      varsScenario, varsGroups>>

OthersOfFetcher ==
    <<varsBatch, varsGather, varsConvert, varsCmip,
      varsBuilder, varsLandfire, varsBlackHills, varsScripts,
      varsBbox, varsAgg, varsNearest, varsTaskId,
      varsScenario, varsGroups>>

OthersOfBbox ==
    <<varsBatch, varsGather, varsConvert, varsCmip,
      varsBuilder, varsLandfire, varsBlackHills, varsScripts,
      varsFetcher, varsAgg, varsNearest, varsTaskId,
      varsScenario, varsGroups>>

OthersOfAgg ==
    <<varsBatch, varsGather, varsConvert, varsCmip,
      varsBuilder, varsLandfire, varsBlackHills, varsScripts,
      varsFetcher, varsBbox, varsNearest, varsTaskId,
      varsScenario, varsGroups>>

OthersOfNearest ==
    <<varsBatch, varsGather, varsConvert, varsCmip,
      varsBuilder, varsLandfire, varsBlackHills, varsScripts,
      varsFetcher, varsBbox, varsAgg, varsTaskId,
      varsScenario, varsGroups>>

OthersOfTaskId ==
    <<varsBatch, varsGather, varsConvert, varsCmip,
      varsBuilder, varsLandfire, varsBlackHills, varsScripts,
      varsFetcher, varsBbox, varsAgg, varsNearest,
      varsScenario, varsGroups>>

OthersOfScenario ==
    <<varsBatch, varsGather, varsConvert, varsCmip,
      varsBuilder, varsLandfire, varsBlackHills, varsScripts,
      varsFetcher, varsBbox, varsAgg, varsNearest,
      varsTaskId, varsGroups>>

OthersOfGroups ==
    <<varsBatch, varsGather, varsConvert, varsCmip,
      varsBuilder, varsLandfire, varsBlackHills, varsScripts,
      varsFetcher, varsBbox, varsAgg, varsNearest,
      varsTaskId, varsScenario>>

SpecBatch == Init /\ [][NextBatch /\ UNCHANGED OthersOfBatch]_vars

SpecGather == Init /\ [][NextGather /\ UNCHANGED OthersOfGather]_vars

SpecConvert == Init /\ [][NextConvert /\ UNCHANGED OthersOfConvert]_vars

SpecCmip == Init /\ [][NextCmip /\ UNCHANGED OthersOfCmip]_vars

SpecBuilder == Init /\ [][NextBuilder /\ UNCHANGED OthersOfBuilder]_vars

SpecLandfire == Init /\ [][NextLandfire /\ UNCHANGED OthersOfLandfire]_vars

SpecBlackHills == Init /\ [][NextBlackHills /\ UNCHANGED OthersOfBlackHills]_vars

SpecScripts == Init /\ [][NextScripts /\ UNCHANGED OthersOfScripts]_vars

SpecFetcher == Init /\ [][NextFetcher /\ UNCHANGED OthersOfFetcher]_vars

SpecBbox == Init /\ [][NextBbox /\ UNCHANGED OthersOfBbox]_vars

SpecAgg == Init /\ [][NextAgg /\ UNCHANGED OthersOfAgg]_vars

SpecNearest == Init /\ [][NextNearest /\ UNCHANGED OthersOfNearest]_vars

SpecTaskId == Init /\ [][NextTaskId /\ UNCHANGED OthersOfTaskId]_vars

SpecScenario == Init /\ [][NextScenario /\ UNCHANGED OthersOfScenario]_vars

SpecGroups == Init /\ [][NextGroups /\ UNCHANGED OthersOfGroups]_vars

(***************************************************************************)
(* Claims on the batch exporter                                            *)
(***************************************************************************)

\* C1: no key that download_progress.json held when the run started is
\* submitted during the run, and no key is submitted twice within one run.
C1_NoResubmission ==
    /\ Range(submitted_log) \cap loaded_at_start = {}
    /\ Cardinality(Range(submitted_log)) = Len(submitted_log)

\* a finished run that enumerated a recorded combination, left it alone and
\* submitted other combinations
C1_Witness ==
    /\ pc = "done"
    /\ args.scenarios = <<"rcp45", "rcp85">>
    /\ "tasmax_GFDL-ESM2M_rcp45_2009_2011_DJF" \in loaded_at_start
    /\ submitted_log # <<>>

\* C2: a job is submitted only while fewer than TASK_LIMIT jobs of the run
\* are active, the driver stays in _throttle while TASK_LIMIT or more are
\* active, and the number of active jobs never exceeds TASK_LIMIT.
C2_ThrottleBound ==
    /\ [](n_active <= TASK_LIMIT)
    /\ [][/\ Len(submitted_log') > Len(submitted_log) => n_active < TASK_LIMIT
          /\ (pc = "throttle" /\ n_active >= TASK_LIMIT)
                => pc' \in {"throttle", "idle"}]_vars

\* the driver has slept in _throttle and a task has ended since
C2_Witness ==
    /\ pc = "throttle"
    /\ throttle_waits > 0
    /\ n_active = TASK_LIMIT - 1

(***************************************************************************)
(* Claims on the map-feature fetcher                                       *)
(***************************************************************************)

\* C3: _execute_overpass_query issues at most max_retries requests, returns
\* at the first request that succeeds, waits 2^a seconds after the failed
\* attempt a unless it was the last one, and returns None without a wait
\* after max_retries failures.
C3_RetryBackoff ==
    /\ requests_made <= max_retries
    /\ requests_made = Len(outcomes)
    /\ \A i \in 1..Len(outcomes) - 1 : ~outcomes[i]
    /\ \A i \in 1..Len(waits) : waits[i] = 2 ^ (i - 1)
    /\ g_pc = "query" => Len(waits) = Len(outcomes)
    /\ q_result = "response" =>
          /\ outcomes[Len(outcomes)]
          /\ Len(waits) = Len(outcomes) - 1
    /\ q_result = "None" =>
          /\ Len(outcomes) = max_retries
          /\ \A i \in 1..Len(outcomes) : ~outcomes[i]
          /\ Len(waits) = Max2(max_retries - 1, 0)

\* three failed requests of a query with the default retry count
C3_Witness ==
    /\ g_pc = "returned"
    /\ q_result = "None"
    /\ max_retries = 3
    /\ requests_made = 3
    /\ waits = <<1, 2>>

(***************************************************************************)
(* Claims on the GeoJSON converter                                         *)
(***************************************************************************)
SrcOf(j) == osm_data.elements[feature_src[j]]

IsClosed(e) == e.geometry[1] = e.geometry[Len(e.geometry)]

\* the tags of the way name one of the area-indicating tags
TagsMatch(e) == e.has_tags /\ DOMAIN e.tags \cap polygon_tags # {}

\* the tags of the way mark it as an area: an area tag decides alone, by
\* its value; without an area tag any other area-indicating tag does
TagsMarkArea(e) ==
    /\ e.has_tags
    /\ IF "area" \in DOMAIN e.tags
       THEN e.tags["area"] \in {"yes", "Yes", "YES", "true", "True", "1"}
       ELSE DOMAIN e.tags \cap (polygon_tags \ {"area"}) # {}

\* C4 as stated: a way with two or more coordinates becomes a Polygon
\* exactly if it is closed and its tags match the area-indicating tags, and
\* a LineString otherwise.
C4_Original ==
    \A j \in 1..Len(features) :
        SrcOf(j).type = "way" =>
            features[j].geometry.type =
                IF IsClosed(SrcOf(j)) /\ TagsMatch(SrcOf(j))
                THEN "Polygon" ELSE "LineString"

\* C4 amended: a way with two or more coordinates becomes a Polygon exactly
\* if it is closed and either carries an area tag whose value is yes, true
\* or 1 (in any case), or carries no area tag and one of the other
\* area-indicating tags; it becomes a LineString otherwise.
C4_Amended ==
    \A j \in 1..Len(features) :
        SrcOf(j).type = "way" =>
            features[j].geometry.type =
                IF IsClosed(SrcOf(j)) /\ TagsMarkArea(SrcOf(j))
                THEN "Polygon" ELSE "LineString"

\* a closed way tagged building=yes and area=no was converted, and so was
\* a closed way tagged building=yes
C4_Witness ==
    /\ Len(features) = 2
    /\ SrcOf(1).tags = (("building" :> "yes") @@ ("area" :> "no"))
    /\ IsClosed(SrcOf(1))
    /\ features[1].geometry.type = "LineString"
    /\ SrcOf(2).tags = ("building" :> "yes")
    /\ IsClosed(SrcOf(2))
    /\ features[2].geometry.type = "Polygon"

\* the elements that yield a feature
Kept(e) ==
    \/ e.type = "node"
    \/ e.type = "way" /\ e.has_geometry /\ Len(e.geometry) >= 2
    \/ e.type = "relation" /\ e.has_bounds

KeptIndexes(n) == {i \in 1..n : Kept(osm_data.elements[i])}

\* C5: ways without geometry or with fewer than two coordinates and
\* relations without bounds are dropped and the loop goes on; every other
\* node, way and relation yields exactly one feature, in input order, a
\* node a Point at [lon, lat]; the number of features is the number of
\* elements minus the dropped ones.
C5_LocalSkips ==
    /\ Len(features) = Cardinality(KeptIndexes(c_idx))
    /\ Range(feature_src) = KeptIndexes(c_idx)
    /\ \A j \in 1..Len(feature_src) - 1 : feature_src[j] < feature_src[j + 1]
    /\ \A j \in 1..Len(features) :
          /\ features[j].properties["osm_id"] = SrcOf(j).id
          /\ SrcOf(j).type = "node" =>
                /\ features[j].geometry.type = "Point"
                /\ features[j].geometry.coordinates
                      = <<SrcOf(j).lon, SrcOf(j).lat>>
    /\ geojson.type = "FeatureCollection" /\ c_pc = "idle" =>
          /\ geojson.features = features
          /\ c_idx = Len(osm_data.elements)
          /\ Len(geojson.features)
                = Len(osm_data.elements)
                  - Cardinality({i \in 1..Len(osm_data.elements) :
                                    ~Kept(osm_data.elements[i])})

\* a document whose first element is a way of one coordinate and whose
\* second element is a node has been converted to one Point
C5_Witness ==
    /\ c_pc = "idle"
    /\ geojson.type = "FeatureCollection"
    /\ Len(osm_data.elements) = 2
    /\ osm_data.elements[1].type = "way"
    /\ Len(osm_data.elements[1].geometry) = 1
    /\ osm_data.elements[2].type = "node"
    /\ feature_src = <<2>>

(***************************************************************************)
(* Claims on the CMIP processor                                            *)
(***************************************************************************)
AxisSpan(axis) == SeqMax(axis) - SeqMin(axis)

\* the labels of the bins of size b that cover an axis: left edge plus b/2
ExpectedLabels(axis, b) ==
    [i \in 1..CeilDiv(AxisSpan(axis), b) |->
        SeqMin(axis) + (i - 1) * b + (b \div 2)]

\* C6: the result of bucket_spatial has ceil((max - min) / B) bins on each
\* axis and every bin is labelled by its left edge plus B/2.
C6_BinCount ==
    (cm_call.op = "bucket_spatial" /\ ~cm_result.raised) =>
        /\ cm_result.ds.lat_bins
              = ExpectedLabels(cm_dataset.lat, cm_call.lat_bucket_size)
        /\ cm_result.ds.lon_bins
              = ExpectedLabels(cm_dataset.lon, cm_call.lon_bucket_size)

\* C7: with a time bucket size and lat/lon bucket sizes the datacube of
\* process_to_datacube has as many time steps as the temporal bucketing
\* leaves and the lat_bins and lon_bins coordinates of the spatial bucketing.
C7_BothReductions ==
    ( /\ cm_call.op = "process_to_datacube"
      /\ cm_call.time_bucket_size # "None"
      /\ cm_call.lat_bucket_size # 0
      /\ cm_call.spatial_agg_method \in SupportedMethods
      /\ ~bucket_temporal(cm_dataset, cm_call.time_bucket_size,
                          cm_call.temporal_agg_method,
                          cm_call.variables).raised ) =>
        /\ cm_result.ds.lat_bins # <<>>
        /\ cm_result.ds.lon_bins # <<>>
        /\ Len(cm_result.ds.time)
              = Len(bucket_temporal(cm_dataset, cm_call.time_bucket_size,
                                    cm_call.temporal_agg_method,
                                    cm_call.variables).ds.time)

\* days a bucket of the frequency spans, 0 for a frequency that is not known
SpanDays(f) ==
    CASE f \in {"M", "ME"} -> 30
      [] f \in {"Q", "QE", "3M", "3ME"} -> 90
      [] f \in {"Y", "YE"} -> 360
      [] f = "10D" -> 10
      [] OTHER -> 0

NativeStep(time) == time[2] - time[1]

\* the stride the fallback documents: 1 monthly, 3 quarterly, 12 yearly
DocumentedStride(f) ==
    CASE f \in {"Q", "QE", "3M", "3ME"} -> 3
      [] f \in {"Y", "YE"} -> 12
      [] OTHER -> 1

TemporalCall ==
    /\ cm_call.op = "bucket_temporal"
    /\ cm_call.temporal_agg_method \in SupportedMethods

BuildReturned == b_call.op = "build_datacube" /\ ~b_result.raised

\* C9: the dataset build_datacube returns contains, for every registered
\* dataset d whose lat, lon and time dimensions are identified and every
\* data variable v of d, a variable named d_v, and it carries lat, lon and
\* time coordinates; it is the one dataset the builder keeps.
C9_PrefixedVariables ==
    BuildReturned =>
        /\ \A i \in 1..Len(b_datasets) :
              Identified(b_datasets[i].dataset) =>
                 \A v \in b_datasets[i].dataset.data_vars :
                    (b_datasets[i].name \o "_" \o v)
                        \in DOMAIN b_result.cube.data_vars
        /\ {"lat", "lon", "time"} \subseteq DOMAIN b_result.cube.coords
        /\ b_combined_datacube = b_result.cube

\* a datacube built from two datasets whose dimensions are identified
C9_Witness ==
    /\ BuildReturned
    /\ \E i, j \in 1..Len(b_datasets) :
          /\ i # j
          /\ Identified(b_datasets[i].dataset)
          /\ Identified(b_datasets[j].dataset)
          /\ "temperature" \in b_datasets[i].dataset.data_vars
          /\ "c" \in b_datasets[j].dataset.data_vars
    /\ Cardinality(DOMAIN b_result.cube.data_vars) >= 2

GridCallNoBounds ==
    /\ b_call.op = "create_unified_grid"
    /\ ~b_result.raised
    /\ b_call.bounds.lat = NoBound
    /\ b_call.bounds.lon = NoBound

\* every coordinate the registered datasets hold under one of the names
InputCoordinates(names) ==
    UNION { Range(b_datasets[i].dataset.coords[
                      FindDim(names, b_datasets[i].dataset)]) :
            i \in {j \in 1..Len(b_datasets) :
                      FindDim(names, b_datasets[j].dataset) # "None"} }

\* the grid axis reaches from the smallest to the largest input coordinate
SpansExtent(axis, inputs) ==
    inputs # {} =>
        /\ axis # <<>>
        /\ \A x \in inputs : axis[1] <= x /\ axis[Len(axis)] >= x

\* the grid axis starts at or below the smallest input coordinate and ends
\* within half a resolution below the largest, at or above it when the
\* distance from the first grid value is a multiple of the resolution
SpansWithinHalfStep(axis, inputs, resolution) ==
    inputs # {} =>
        /\ axis # <<>>
        /\ \A x \in inputs :
              /\ axis[1] <= x
              /\ 2 * axis[Len(axis)] >= 2 * x - resolution
              /\ (x - axis[1]) % resolution = 0 => axis[Len(axis)] >= x

C11_NoCollision ==
    BuildReturned =>
        \A i \in 1..Len(b_datasets) :
            Identified(b_datasets[i].dataset) =>
               \A v \in b_datasets[i].dataset.data_vars :
                  LET merged == b_result.cube.data_vars[
                                    b_datasets[i].name \o "_" \o v]
                  IN  /\ merged.dataset = b_datasets[i].name
                      /\ merged.variable = v

\* the dataset has a coordinate under a latitude, a longitude and a time name
NamesTheDimensions(dataset) ==
    /\ DOMAIN dataset.coords \cap {"lat", "latitude", "y"} # {}
    /\ DOMAIN dataset.coords \cap {"lon", "longitude", "x"} # {}
    /\ DOMAIN dataset.coords \cap {"time", "date", "t"} # {}

\* a build_datacube call on a builder holding a dataset that is left out
BuildWithUnidentified ==
    /\ b_call.op = "build_datacube"
    /\ \E i \in 1..Len(b_datasets) :
          ~NamesTheDimensions(b_datasets[i].dataset)

\* the merged names of the datasets whose dimensions are identified
RemainingNames ==
    UNION { {b_datasets[i].name \o "_" \o v :
                v \in b_datasets[i].dataset.data_vars} :
            i \in {j \in 1..Len(b_datasets) :
                      NamesTheDimensions(b_datasets[j].dataset)} }

SomeTimeCoordinate ==
    \E i \in 1..Len(b_datasets) :
        FindDim(time_names, b_datasets[i].dataset) # "None"

HoldsVariableOf(cube, name) ==
    \E n \in DOMAIN cube.data_vars : cube.data_vars[n].dataset = name

\* C13: the datacube of a completed Black Hills run holds at least one
\* vegetation_* variable and at least one climate_* variable.
C13_BothSources ==
    (bh_pc = "exited" /\ bh_exit = 0) =>
        /\ HoldsVariableOf(bh_unified_cube, "vegetation")
        /\ HoldsVariableOf(bh_unified_cube, "climate")

(***************************************************************************)
(* Claims on the arguments of the CMIP processor                           *)
(***************************************************************************)
\* C14: when process_to_datacube is given a variables list, the data
\* variables of the datacube it returns are among the listed names,
\* whatever bucketing is requested and whether or not the names exist.
C14_VariablesSubset ==
    ( /\ cm_call.op = "process_to_datacube"
      /\ cm_call.variables # <<>>
      /\ ~cm_result.raised ) =>
        cm_result.ds.data_vars \subseteq Range(cm_call.variables)

UnsupportedSpatial == cm_call.spatial_agg_method = "bogus"

UnsupportedTemporal == cm_call.temporal_agg_method = "bogus"

LoopsMoved == <<vi', mi', si', y0', sk'>> # <<vi, mi, si, y0, sk>>

\* C16: when _start_export finds no image for a combination that is not
\* recorded yet, no export task is started, the key is not added to
\* completed_tasks, the combination is not counted as started, and the
\* enumeration goes on to the next combination or ends the run normally.
C16_EmptySkipped ==
    [][ ( /\ pc = "export"
          /\ CurrentTid \in remote_empty
          /\ CurrentTid \notin completed_tasks
          /\ enumerated' = enumerated + 1 )
        => /\ active_tasks' = active_tasks
           /\ n_active' = n_active
           /\ submitted_log' = submitted_log
           /\ completed_tasks' = completed_tasks
           /\ tasks_started' + started' = tasks_started + started
           /\ \/ pc' = "export" /\ LoopsMoved
              \/ pc' = "done" ]_vars

\* the run has passed the combination without images and has submitted the
\* one after it
C16_Witness ==
    /\ pc \in {"export", "throttle"}
    /\ "tasmax_GFDL-ESM2M_historical_1953_1955_MAM" \in remote_empty
    /\ "tasmax_GFDL-ESM2M_historical_1953_1955_MAM" \notin completed_tasks
    /\ "tasmax_GFDL-ESM2M_historical_1953_1955_JJA" \in Range(submitted_log)
    /\ started + tasks_started = Len(submitted_log)

\* C17: a dry run initializes nothing remote, enumerates and submits
\* nothing, leaves download_progress.json and the remote jobs as they are,
\* and the number of export tasks it prints is the number of combinations
\* that a real run with the same command line enumerates.
C17_DryRunInert ==
    /\ [](pc = "dry_done" =>
            /\ ~ee_initialized
            /\ enumerated = 0
            /\ submitted_log = <<>>
            /\ active_tasks = 0
            /\ printed.mode = "dry_run" =>
                  printed.est_tasks = est_tasks(args))
    /\ [](pc = "done" => enumerated = est_tasks(args))
    /\ [][(pc = "dry_done" \/ pc' = "dry_done") =>
             UNCHANGED <<progress_exists, progress_file, remote_jobs>>]_vars

\* a dry run for both future scenarios after a real run has written the
\* progress file
C17_Witness ==
    /\ pc = "dry_done"
    /\ printed.mode = "dry_run"
    /\ printed.est_tasks = 256
    /\ progress_exists
    /\ progress_file # {}

\* C18: the active count that --check-status reports is the number of jobs
\* active at the remote service, those of earlier runs included, and the
\* completed count is the number of identifiers in download_progress.json.
C18_StatusCounts ==
    pc = "status_done" =>
        /\ printed.active = remote_jobs + n_active
        /\ printed.completed = Cardinality(_load_progress)

\* the completed count alone is the number of stored identifiers
C18_CompletedCount ==
    pc = "status_done" => printed.completed = Cardinality(_load_progress)

(***************************************************************************)
(* Claims on the pauses and exit codes of the scripts                      *)
(***************************************************************************)

\* C19: gather_all_data sleeps 2 seconds between one data-type query and the
\* next, whether the gather function saved a file, returned None or raised.
C19_PauseAlways ==
    \A i \in 1..Len(pauses) : i < Len(data_types) => pauses[i] = 2

\* the pause is made exactly after the calls that did not raise
C19_PauseUnlessRaised ==
    /\ Len(pauses) = Len(gathered)
    /\ \A i \in 1..Len(pauses) :
          pauses[i] = IF gathered[i] = "raised" THEN 0 ELSE 2

Succeeded == { i \in DOMAIN m_results : m_results[i] \in {"saved", "converted"} }

C20_ConverterAllFailed ==
    /\ m_pc = "exited"
    /\ m_script = "converter"
    /\ m_mode = "directory"
    /\ m_results = <<"failed", "failed">>
    /\ m_exit = 0

(***************************************************************************)
(* Claims on the climate fetcher                                           *)
(***************************************************************************)

\* C21: a call of download_subset whose target file exists and whose force
\* flag is false reaches no remote service, writes nothing and returns the
\* existing path; a call with force set or with the file absent attempts the
\* download.
C21_SkipExisting ==
    [][ fx_ncalls' = fx_ncalls + 1 =>
          IF fx_call'.filename \in fx_files /\ ~fx_call'.force
          THEN /\ fx_attempts' = fx_attempts
               /\ fx_writes' = fx_writes
               /\ fx_files' = fx_files
               /\ fx_result' = fx_call'.filename
          ELSE fx_attempts' = fx_attempts + 1 ]_vars

\* a forced call for an existing file went to the remote service, after an
\* unforced one had been skipped
C21_Witness ==
    /\ fx_call.existed
    /\ fx_call.force
    /\ fx_attempts = 2
    /\ fx_ncalls = 3
    /\ fx_writes = 1

(***************************************************************************)
(* Claims on the bounding-box string                                       *)
(***************************************************************************)

\* C22: a bounding-box string of exactly four numeric tokens separated by
\* whitespace sets minx, miny, maxx, maxy to the four numbers in that order;
\* a string with another number of tokens raises ValueError.
C22_ParseBbox ==
    /\ ( /\ Len(bb_tokens) = 4
         /\ \A i \in 1..4 : bb_tokens[i].numeric )
          => /\ ~bb_self.raised
             /\ bb_self.minx = bb_tokens[1].value
             /\ bb_self.miny = bb_tokens[2].value
             /\ bb_self.maxx = bb_tokens[3].value
             /\ bb_self.maxy = bb_tokens[4].value
    /\ (bb_bbox # <<>> /\ Len(bb_tokens) # 4) => bb_self.raised

\* four different numbers, separated by a tab and a space, were parsed
C22_Witness ==
    /\ Len(bb_tokens) = 4
    /\ bb_bbox[1] = " "
    /\ "\t" \in Range(bb_bbox)
    /\ ~bb_self.raised
    /\ <<bb_self.minx, bb_self.miny, bb_self.maxx, bb_self.maxy>>
          = <<-1050, 25, 400, 700>>

(***************************************************************************)
(* Claims on the reductions of a cell                                      *)
(***************************************************************************)

\* a >= b as numpy compares floats: false when either side is NaN
FloatGe(a, b) == a # NaN /\ b # NaN /\ a >= b

RunStep == pc \in {"export", "throttle"} /\ pc' \in {"export", "throttle", "done"}

\* the run has finished a (variable, model, scenario) batch or its last one
BatchEnds == <<vi', mi', si'>> # <<vi, mi, si>> \/ pc' = "done"

\* C24: during a batch run completed_tasks only grows and holds the key of
\* every job from the moment it is submitted; after every (variable, model,
\* scenario) batch and at the end of batch_download the progress file holds
\* exactly that set; the file at the end of a run contains the set loaded at
\* the start of the run and the key of every job submitted in it.
C24_ProgressGrows ==
    /\ [](pc \in {"export", "throttle", "done"} =>
            /\ loaded_at_start \subseteq completed_tasks
            /\ Range(submitted_log) \subseteq completed_tasks)
    /\ [](pc = "done" =>
            /\ progress_exists
            /\ progress_file = completed_tasks
            /\ loaded_at_start \subseteq progress_file
            /\ Range(submitted_log) \subseteq progress_file)
    /\ [][RunStep =>
            /\ completed_tasks \subseteq completed_tasks'
            /\ Len(submitted_log') > Len(submitted_log) =>
                  submitted_log'[Len(submitted_log')] \in completed_tasks'
            /\ BatchEnds =>
                  progress_exists' /\ progress_file' = completed_tasks']_vars

\* a second run has ended: the file holds what the first run left and the
\* keys the second run submitted
C24_Witness ==
    /\ pc = "done"
    /\ loaded_at_start # {}
    /\ submitted_log # <<>>
    /\ Cardinality(progress_file)
          = Cardinality(loaded_at_start) + Len(submitted_log)

(***************************************************************************)
(* Claims on the nearest neighbour fallback                                *)
(***************************************************************************)

\* the squared distance in the coordinate plane between the source cell
\* (i, j) of a grid and a target point
Distance2(lats, lons, i, j, target) ==
    (lats[i] - target[1]) * (lats[i] - target[1])
        + (lons[j] - target[2]) * (lons[j] - target[2])

\* the cell the fallback picked is a source cell at the smallest 2D distance
\* from the target
PickedIsNearest ==
    \A i \in DOMAIN nn_source_lats, j \in DOMAIN nn_source_lons :
        Distance2(nn_source_lats, nn_source_lons, nn_nearest[1],
                  nn_nearest[2], nn_target)
           <= Distance2(nn_source_lats, nn_source_lons, i, j, nn_target)

\* C25 as stated: there are a source grid and a target point for which the
\* per-axis choice of the fallback is not a source cell at minimum 2D
\* distance from the target, so a call that picks such a cell is possible.
C25_Original ==
    nn_nearest = <<0, 0>> => ENABLED (NearestCell /\ ~PickedIsNearest')

\* C25 amended: the fallback picks the source latitude index and the source
\* longitude index independently by smallest absolute coordinate
\* difference, the first index on a tie, and on the rectilinear source grid
\* the cell it picks is always a source cell at minimum 2D distance in the
\* coordinate plane from the target point.
C25_Amended ==
    nn_nearest # <<0, 0>> =>
        /\ \A i \in DOMAIN nn_source_lats :
              /\ Abs(nn_source_lats[nn_nearest[1]] - nn_target[1])
                    <= Abs(nn_source_lats[i] - nn_target[1])
              /\ i < nn_nearest[1] =>
                    Abs(nn_source_lats[nn_nearest[1]] - nn_target[1])
                       < Abs(nn_source_lats[i] - nn_target[1])
        /\ \A j \in DOMAIN nn_source_lons :
              /\ Abs(nn_source_lons[nn_nearest[2]] - nn_target[2])
                    <= Abs(nn_source_lons[j] - nn_target[2])
              /\ j < nn_nearest[2] =>
                    Abs(nn_source_lons[nn_nearest[2]] - nn_target[2])
                       < Abs(nn_source_lons[j] - nn_target[2])
        /\ PickedIsNearest

\* a target between two source cells of an unsorted grid, nearer to the
\* second latitude and tied between the longitudes
C25_Witness ==
    /\ nn_source_lats = <<10, 4>>
    /\ nn_source_lons = <<4, 10>>
    /\ nn_target = <<5, 7>>
    /\ nn_nearest = <<2, 1>>

(***************************************************************************)
(* Claims on the stride fallback of temporal bucketing                     *)
(***************************************************************************)
\* the stride of a monthly, quarterly or yearly frequency string, 0 for any
\* other string
CalendarStride(f) ==
    CASE f \in {"M", "ME"} -> 1
      [] f \in {"Q", "QE", "3M", "3ME"} -> 3
      [] f \in {"Y", "YE"} -> 12
      [] OTHER -> 0

UndecodedCall ==
    /\ cm_call.op = "bucket_temporal"
    /\ cm_dataset.time_kind = "numeric"
    /\ CalendarStride(cm_call.time_bucket_size) > 0

C27_TaskIdInjective ==
    tk_tasks # NoTasks =>
        /\ tk_ids[1] = tk_ids[2] => tk_tasks[1] = tk_tasks[2]
        /\ tk_counts[1] = 8 * 20 * (19 + 32 + 32) * 4
        /\ tk_counts[2] = tk_counts[1]

\* two exports that differ in the scenario only have two identifiers
C27_Witness ==
    /\ tk_tasks = << <<"pr", "bcc-csm1-1", "rcp45", 2099, 2099, "SON">>,
                     <<"pr", "bcc-csm1-1", "rcp85", 2099, 2099, "SON">> >>
    /\ tk_ids = <<"pr_bcc-csm1-1_rcp45_2099_2099_SON",
                  "pr_bcc-csm1-1_rcp85_2099_2099_SON">>
    /\ tk_counts = <<53120, 53120>>

(***************************************************************************)
(* Claims on the periods of a scenario                                     *)
(***************************************************************************)
\* the years of period p
PeriodYears(p) == p[1]..p[2]

\* C28: the periods [y0, min(y0 + 2, end)] of a scenario partition its year
\* range: each covers one to three years, the first starts at the scenario's
\* start, each next one starts the year after the previous one ends, and
\* when _process_scenario returns the last one ends at the scenario's end,
\* so that every year of the range lies in exactly one period.
C28_PeriodsPartition ==
    ps_pc # "idle" =>
        LET info == SCENARIOS[ps_scen]
            n    == Len(ps_periods)
        IN  /\ n >= 1
            /\ ps_periods[1][1] = info.start
            /\ \A i \in 1..n :
                  /\ Cardinality(PeriodYears(ps_periods[i])) \in 1..3
                  /\ PeriodYears(ps_periods[i]) \subseteq info.start..info.end
            /\ \A i \in 1..(n - 1) :
                  ps_periods[i + 1][1] = ps_periods[i][2] + 1
            /\ \A i \in 1..n, j \in 1..n :
                  i # j => PeriodYears(ps_periods[i])
                              \cap PeriodYears(ps_periods[j]) = {}
            /\ ps_pc = "returned" =>
                  /\ ps_periods[n][2] = info.end
                  /\ \A y \in info.start..info.end :
                        Cardinality({i \in 1..n :
                            y \in PeriodYears(ps_periods[i])}) = 1

\* the historical scenario ends with the two-year period 2004-2005 and rcp
\* scenarios end with the one-year period 2099
C28_Witness ==
    /\ ps_pc = "returned"
    /\ ps_scen = "historical"
    /\ Len(ps_periods) = 19
    /\ ps_periods[19] = <<2004, 2005>>

(***************************************************************************)
(* Claims on the groups of spatial bucketing                               *)
(***************************************************************************)
\* the groups a source cell belongs to
GroupsOf(cell) == {g \in gb_groups : cell \in g.cells}

\* C29: in spatial bucketing every source grid cell, the cells at the
\* minimum and at the maximum coordinate of each axis included, falls in
\* exactly one (lat bin, lon bin) group; none is left out and none is in
\* two groups.
C29_EveryCellGrouped ==
    gb_lat # <<>> =>
        \A cell \in (DOMAIN gb_lat) \X (DOMAIN gb_lon) :
            Cardinality(GroupsOf(cell)) = 1

(***************************************************************************)
(* Claims on the stages of the LANDFIRE processor                          *)
(***************************************************************************)
\* the methods that run the missing earlier stages themselves
LaterStages == {"create_dataset", "reproject_to_latlon", "bucket_spatial"}

\* a call of a later stage on a processor for which no raw data path, TIFF
\* path or dataset has been set
StageCallOnNothing ==
    /\ lf_self = NewProcessor
    /\ lf_call.op = "none"
    /\ lf_call'.op \in LaterStages

\* each stage's product is there only when the product of the stage before
\* it is there: raw path, TIFF path, raw dataset, processed dataset
StagesInOrder ==
    /\ lf_self.tiff_path # NoRaster => lf_self.raw_data_path
    /\ ~lf_self.raw_dataset.is_none => lf_self.tiff_path # NoRaster
    /\ ~lf_self.processed_dataset.is_none => ~lf_self.raw_dataset.is_none

\* C30: the stages of LandfireProcessor come in the order raw path, extract,
\* create_dataset, reproject_to_latlon, bucket_spatial: in any call sequence
\* processed_dataset is never set while raw_dataset is unset, and
\* create_dataset, reproject_to_latlon or bucket_spatial called while no raw
\* data path, TIFF path or dataset has been set raises the ValueError of
\* extract_data and leaves raw_dataset and processed_dataset unset.
C30_StageOrder ==
    /\ []StagesInOrder
    /\ [][StageCallOnNothing =>
            /\ lf_result'.raised
            /\ lf_result'.error = "ValueError"
            /\ lf_self'.raw_dataset.is_none
            /\ lf_self'.processed_dataset.is_none
            /\ lf_self' = lf_self]_vars

\* bucket_spatial called on a fresh processor has raised ValueError and the
\* processor holds nothing
C30_Witness ==
    /\ lf_call.op = "bucket_spatial"
    /\ lf_self = NewProcessor
    /\ lf_result.raised
    /\ lf_result.error = "ValueError"

====
